---- MODULE Spec2Model ----
(***************************************************************************)
(* The synchronisation engine of backend/services/syncManager.js:          *)
(* startSync fetches the inFlow records, filters the records without a    *)
(* SKU, and reconciles the rest with the Shopify sink in batches of        *)
(* BATCH_SIZE concurrent item pipelines joined by Promise.allSettled.      *)
(*                                                                         *)
(* One action is one run-to-completion step of the JavaScript event loop:  *)
(* the code between two awaits.  A network call is issued by the step that *)
(* reaches it and is answered by a later step, which then runs the         *)
(* continuation up to the next call.                                       *)
(***************************************************************************)
EXTENDS Integers, Sequences, FiniteSets, TLC

\* ------------------------------------------------------------------ bounds

\* Longest list of records the source returns: more than one batch.
MaxRecords == 6
\* Longest regular list into which one irregular record is inserted.
MaxOddBase == 1
\* Longest channelIds argument.
MaxChannels == 2
\* Most failing responses the environment gives in one behaviour.
MaxFaults == 1
\* Most consecutive runs of startSync in one behaviour.
MaxRuns == 2

\* ------------------------------------------------------- program constants

\* const BATCH_SIZE = 5
BATCH_SIZE == 5

Min(a, b) == IF a < b THEN a ELSE b

\* The SKUs of the source catalog.
SKUS == 1 .. MaxRecords

\* ------------------------------------------------------------------ inputs

(* A fetched source record, reduced to what startSync reads of it:         *)
(*   hasAttr   item.attributes is present                                  *)
(*   sku       attributes.sku, 0 when absent or empty                      *)
(*   hasImg    images.length > 0, defaultImage or attributes.imageUrl      *)
(*   hasStock  the inventory lines (or attributes.totalQuantityOnHand)     *)
(*             add up to more than 0                                       *)
Rec(a, s, im, q) == [hasAttr |-> a, sku |-> s, hasImg |-> im, hasStock |-> q]

\* The p-th record of a regular list: its SKU is p, and the first record
\* has an image and stock.
BaseRec(p) == Rec(TRUE, p, p = 1, p = 1)

BaseList(n) == [p \in 1 .. n |-> BaseRec(p)]

\* Irregular records: no SKU; the SKU of the first record again; no
\* attributes object but an image; no attributes object but stocked
\* inventory lines.
OddKinds ==
    { Rec(TRUE, 0, FALSE, FALSE), Rec(TRUE, 1, FALSE, FALSE),
      Rec(FALSE, 0, TRUE, FALSE), Rec(FALSE, 0, FALSE, TRUE) }

InsertAt(s, pos, r) ==
    [p \in 1 .. (Len(s) + 1) |-> IF p < pos THEN s[p] ELSE IF p = pos THEN r ELSE s[p - 1]]

\* Lists of at most MaxOddBase regular records, with or without one
\* irregular record in front or at the end.
ShortLists ==
    { BaseList(n) : n \in 0 .. MaxOddBase }
    \cup UNION { { InsertAt(BaseList(n), pos, r) : pos \in {1, n + 1}, r \in OddKinds } :
                  n \in 0 .. MaxOddBase }

\* Regular lists of one full batch and more.
LongLists == { BaseList(n) : n \in BATCH_SIZE .. MaxRecords }

\* channelIds: null, or a list of publication ids, which the caller may repeat.
ChannelArg(isNull, ids) == [isNull |-> isNull, ids |-> ids]

ChannelLists ==
    { ChannelArg(TRUE, <<>>) }
    \cup { ChannelArg(FALSE, [j \in 1 .. k |-> j]) : k \in 0 .. MaxChannels }
    \cup { ChannelArg(FALSE, [j \in 1 .. k |-> 1]) : k \in 2 .. MaxChannels }

CHANNELS == 1 .. MaxChannels

\* defaultPrice.unitPrice of a source record: none has the price of another.
UnitPrice(r) == 10 * r.sku + (IF r.hasStock THEN 5 ELSE 0)

\* The quantities on hand of the inventory lines of a record added up, in
\* tenths: a stocked record holds 2.5.
QuantityOnHand(r) == IF r.hasStock THEN 25 ELSE 0

\* Mutant: the quantity is rounded up.
Ceiling(q) == (q + 9) \div 10

\* Math.floor(parseFloat(q) || 0) of a quantity in tenths.
Floor(q) == q \div 10

\* A sink entry per SKU: n products carry a variant with the SKU; inv: the
\* first variant, the one a search returns, exposes an inventory-item id;
\* loc: its inventory item exposes the id of a location it is stocked at;
\* prod: it exposes its product's id; price and stock: what that variant
\* carries, which before any run is no price and no stock of the source.
SinkEntry(n, inv, prod) ==
    [n |-> n, inv |-> inv, loc |-> inv, prod |-> prod, price |-> 1, stock |-> 9]

Absent == SinkEntry(0, FALSE, FALSE)

EmptySink == [s \in SKUS |-> Absent]

SinkInits ==
    { EmptySink,
      [s \in SKUS |-> SinkEntry(1, TRUE, TRUE)],
      [s \in SKUS |-> IF s = 1 THEN SinkEntry(1, FALSE, TRUE) ELSE Absent],
      [s \in SKUS |-> IF s = 1 THEN SinkEntry(1, TRUE, FALSE) ELSE Absent],
      [s \in SKUS |-> IF s = 1 THEN [SinkEntry(1, TRUE, TRUE) EXCEPT !.loc = FALSE]
                                ELSE Absent] }

\* Mutant: the stock write asks for the inventory-item id alone.
ExposesInventoryItem(e) == e.inv

\* existingVariant.inventoryItemId && existingVariant.locationId
ExposesStockIds(e) == e.inv /\ e.loc

\* The three credentials startSync requires, each set or not.
Credentials ==
    [ inflowToken : BOOLEAN, accessToken : BOOLEAN, storeDomain : BOOLEAN ]

\* Mutant: only the source token is checked.
ConfigValidSourceOnly(c) == c.inflowToken

\* The configuration check passes: none of the two throws is taken.
ConfigValid(c) == c.inflowToken /\ (c.accessToken /\ c.storeDomain)

\* ------------------------------------------------- the record normalizer

\* Longest inventoryLines array of a source record.
MaxLines == 2
\* Longest images array of a source record.
MaxImages == 2

(* JavaScript values of the fields the normalizer reads: undefined, a      *)
(* string parseFloat cannot parse, a number (quantities in tenths), NaN.   *)
Undefined == [kind |-> "undefined", v |-> 0]

Text == [kind |-> "string", v |-> 0]

Num(n) == [kind |-> "number", v |-> n]

NaN == [kind |-> "NaN", v |-> 0]

\* if (x): a non-empty string or a number other than 0 and NaN.
Truthy(x) == x.kind = "string" \/ (x.kind = "number" /\ x.v # 0)

\* a || b
Or(a, b) == IF Truthy(a) THEN a ELSE b

\* parseFloat(x)
ParseFloat(x) == IF x.kind = "number" THEN x ELSE NaN

\* parseFloat(x) || 0, in tenths
ParseFloatOr0(x) == Or(ParseFloat(x), Num(0)).v

\* One element of inventoryLines.
Line(onHand, qty) == [quantityOnHand |-> onHand, quantity |-> qty]

LineKinds ==
    { Line(a, b) : a \in { Undefined, Text, Num(0), Num(20), Num(37) },
                   b \in { Undefined, Num(20) } }

\* The six URL fields of an image object, in the order the normalizer tries them.
IMAGE_FIELDS ==
    << "originalUrl", "largeUrl", "mediumUncroppedUrl", "mediumUrl", "smallUrl", "thumbUrl" >>

\* The three URL fields of a /productlistings record, in the order tried.
LISTING_FIELDS == << "imageUrl", "imageMediumUrl", "imageThumbUrl" >>

\* The query parameters that ask the image host for a resized rendition.
ResizeParams == { "width", "height", "w", "h" }

\* An object with URL fields: the fields that are set, and the names of the
\* query parameters every URL of it carries.
Img(fields, query) == [fields |-> fields, query |-> query]

NoImg == Img({}, <<>>)

ImageKinds ==
    { Img(f, <<>>) :
        f \in { {}, { IMAGE_FIELDS[p] : p \in 1 .. 6 }, { "largeUrl", "mediumUrl" },
                { "mediumUncroppedUrl", "smallUrl", "thumbUrl" }, { "mediumUrl", "smallUrl" },
                { "smallUrl", "thumbUrl" }, { "thumbUrl" } } }
    \cup { Img({ IMAGE_FIELDS[p] : p \in 1 .. 6 }, << "width", "height" >>),
           Img({ "thumbUrl" }, << "v", "w", "h" >>) }

\* A URL: the object and the field it was read from, and its query parameters.
Url(from, pos, field, query) == [from |-> from, pos |-> pos, field |-> field, query |-> query]

\* imageUrl = null
NoUrl == Url("null", 0, "", <<>>)

\* A source record as the normalizer reads it.
RawRecord(isArray, lines, flat, images, defaultImage, hasDefault, listing) ==
    [ linesIsArray |-> isArray,       \* inventoryLines && Array.isArray(inventoryLines)
      inventoryLines |-> lines,
      totalQuantityOnHand |-> flat,   \* attributes.totalQuantityOnHand
      images |-> images,
      hasDefaultImage |-> hasDefault,
      defaultImage |-> defaultImage,
      listing |-> listing ]           \* attributes: imageUrl, imageMediumUrl, imageThumbUrl

SeqsUpTo(S, n) == UNION { [1 .. k -> S] : k \in 0 .. n }

\* Records that differ in their quantities and carry no image.
StockInputs ==
    { RawRecord(TRUE, l, f, <<>>, NoImg, FALSE, NoImg) :
        l \in SeqsUpTo(LineKinds, MaxLines), f \in { Undefined, Text, Num(0), Num(79) } }
    \cup { RawRecord(FALSE, <<>>, f, <<>>, NoImg, FALSE, NoImg) :
             f \in { Undefined, Text, Num(0), Num(79) } }

\* Records that differ in their images and carry no quantity.
ImageInputs ==
    { RawRecord(FALSE, <<>>, Undefined, im, d, d # NoImg, Img(a, <<>>)) :
        im \in SeqsUpTo(ImageKinds, MaxImages),
        d \in { NoImg, Img({ "originalUrl", "thumbUrl" }, <<>>), Img({ "smallUrl" }, <<>>) },
        a \in { {}, { "imageUrl", "imageThumbUrl" }, { "imageMediumUrl", "imageThumbUrl" },
                { "imageThumbUrl" } } }

\* Mutant: the else-if chain is tried from the thumbnail up.
LastUrl(o, from, pos, names) ==
    IF \E p \in DOMAIN names : names[p] \in o.fields
    THEN LET p == CHOOSE p \in DOMAIN names :
                      /\ names[p] \in o.fields
                      /\ \A q \in DOMAIN names : names[q] \in o.fields => q <= p
         IN Url(from, pos, names[p], o.query)
    ELSE NoUrl

\* The else-if chain over the fields of one object: the first that is set.
RECURSIVE FirstUrlFrom(_, _, _, _, _)
FirstUrlFrom(o, from, pos, names, p) ==
    IF p > Len(names) THEN NoUrl
    ELSE IF names[p] \in o.fields THEN Url(from, pos, names[p], o.query)
    ELSE FirstUrlFrom(o, from, pos, names, p + 1)

FirstUrl(o, from, pos, names) == FirstUrlFrom(o, from, pos, names, 1)

\* imageUrl: images[0], then defaultImage, then the listing fields.
ImageUrlOf(rec) ==
    LET m1 == IF Len(rec.images) > 0
              THEN FirstUrl(rec.images[1], "images", 0, IMAGE_FIELDS) ELSE NoUrl
        m2 == IF m1 = NoUrl /\ rec.hasDefaultImage
              THEN FirstUrl(rec.defaultImage, "defaultImage", 0, IMAGE_FIELDS) ELSE m1
    IN IF m2 = NoUrl THEN FirstUrl(rec.listing, "attributes", 0, LISTING_FIELDS) ELSE m2

\* inventoryLines.reduce((sum, line) => sum + (parseFloat(line.quantityOnHand || line.quantity) || 0), 0)
RECURSIVE SumLines(_)
SumLines(lines) ==
    IF lines = <<>> THEN 0
    ELSE ParseFloatOr0(Or(Head(lines).quantityOnHand, Head(lines).quantity))
         + SumLines(Tail(lines))

\* totalQuantity
TotalQuantity(rec) == IF rec.linesIsArray THEN SumLines(rec.inventoryLines) ELSE 0

\* No record normalized yet.
NoProduct ==
    [ normalized |-> FALSE, totalQuantityOnHand |-> Undefined, primaryImageUrl |-> NoUrl,
      defaultImage |-> NoUrl, images |-> <<>> ]

\* The object the .map callback returns, reduced to quantity and images;
\* defaultImage is the originalUrl of the object, NoUrl when it is null.
Normalize(rec) ==
    LET imageUrl == ImageUrlOf(rec)
    IN [ normalized |-> TRUE,
         totalQuantityOnHand |->
             Or(Num(TotalQuantity(rec)), Or(rec.totalQuantityOnHand, Num(0))),
         primaryImageUrl |-> imageUrl,
         defaultImage |-> imageUrl,
         images |-> IF imageUrl # NoUrl THEN << imageUrl >> ELSE <<>> ]

\* No payload built yet.
NoPayload == [built |-> FALSE, inventory_quantity |-> 0, images |-> <<>>]

\* The images and the quantity createShopifyProduct and the item callback
\* send for a normalized record.
PayloadOf(product) ==
    [ built |-> TRUE,
      inventory_quantity |-> Floor(ParseFloatOr0(product.totalQuantityOnHand)),
      images |-> IF product.defaultImage # NoUrl
                 THEN << [src |-> product.defaultImage] >>
                 ELSE [j \in DOMAIN product.images |-> [src |-> product.images[j]]] ]

\* No record under normalization.
NoRaw == RawRecord(FALSE, <<>>, Undefined, <<>>, NoImg, FALSE, NoImg)

\* ------------------------------------------------- the location cache

\* Most calls of fetchShopifyLocations in one behaviour.
MaxCallers == 3
\* Most locations of the sink that can come first among the active ones.
MaxLocations == 2
\* Most records with a SKU in the source when two calls of startSync overlap.
MaxPairSkus == 1
\* Most clicks on the sync button of one dashboard.
MaxClicks == 3

\* The ids the sink can report for its primary location.
LOCATIONS == 1 .. MaxLocations

CALLERS == 1 .. MaxCallers

\* A call of fetchShopifyLocations that has not been made: pc, whether it
\* issued the request, what it returned, and the cache as it found it.
NoCall == [pc |-> "none", requested |-> FALSE, ret |-> 0, seen |-> 0]

\* ------------------------------------------------------------------- state

VARIABLES
    cred,            \* which of the three required credentials the environment sets
    source,          \* the records the source catalog holds (unchanged between runs)
    channelIds,      \* the argument of startSync
    sink,            \* the Shopify catalog, per SKU
    phase,           \* "idle" | "fetching" | "batch" | "pause": where the run is suspended
    inflowProducts,  \* what fetchInflowProducts returned to this run
    productsToSync,  \* the normalized records that have a SKU
    summary,         \* { total, created, updated, failed, published } of this run
    i,               \* the for loop's offset into productsToSync
    item,            \* the pipeline of each element of productsToSync
    faults,          \* failing responses the environment has given so far
    result,          \* what the last finished run returned, NoResult while one runs
    exit,            \* which return statement the last finished run left by
    prev,            \* whether the run before that one returned success, and how it left
    fetched,         \* the number of records the source handed to this run
    launched,        \* the (first, last) positions of each batch launched by this run
    runsLeft,        \* the calls of startSync still to come
    sink0,           \* the sink as it was when this run started
    nFetch,          \* the calls of fetchInflowProducts this run has issued
    logs,            \* the logs array of this run
    raw,             \* a source record handed to the .map callback on its own
    product,         \* what the callback returned for it
    payload,         \* what the sink is sent for it
    primaryLocationId,  \* the module's cache of the location id, 0 for null
    lookup,          \* the calls of fetchShopifyLocations
    calls,           \* two calls of startSync made without waiting for each other
    pauses,          \* the inter-batch pauses this run has started
    httpStatus,      \* the status POST /api/sync/start answered with, 0 before it has
    dash             \* a mounted SyncDashboard: its state hooks and its sync requests

vars ==
    << cred, source, channelIds, sink, phase, inflowProducts, productsToSync,
       summary, i, item, faults, result, httpStatus, exit, prev, fetched, launched,
       runsLeft, sink0, nFetch, logs, raw, product, payload, primaryLocationId,
       lookup, calls, pauses, dash >>

\* The record normalized on its own.
pure == << raw, product, payload >>

\* What the caller and the deployment fix, and what no step of a run touches.
env == << cred, source, channelIds, pure, primaryLocationId, lookup, calls, dash >>

\* What only a call of startSync changes, and the count of pauses.
hist == << prev, runsLeft, sink0, nFetch, pauses >>

configOk == ConfigValid(cred)

ZeroSummary == [total |-> 0, created |-> 0, updated |-> 0, failed |-> 0, published |-> 0]

\* returned: a run has returned this value; its fields mean nothing before.
NoResult == [returned |-> FALSE, success |-> FALSE, summary |-> ZeroSummary]

Returned(ok, sum) == [returned |-> TRUE, success |-> ok, summary |-> sum]

\* POST /api/sync/start, after startSync has resolved: 500 when failed > 0
\* and failed === total, 207 when failed > 0, res.json (200) otherwise.
HttpStatus(res) ==
    IF res.summary.failed > 0 /\ res.summary.failed = res.summary.total THEN 500
    ELSE IF res.summary.failed > 0 THEN 207
    ELSE 200

\* An item pipeline before batch.map reaches it.
NewItem ==
    [ pc |-> "pending",       \* pending | locating | stock | variant | product |
                              \* creating | publishing | settled
      found |-> "none",       \* searchShopifyBySku: none yet | null | record | raised
      inv |-> FALSE,          \* existingVariant.inventoryItemId && existingVariant.locationId
      prod |-> FALSE,         \* existingVariant.product?.id
      chan |-> 0,             \* position in channelIds of the publish call in flight
      publishedCount |-> 0,
      status |-> "",          \* the value the callback returned: created | updated | failed
      raised |-> "",          \* the call whose exception the callback caught
      nLocate |-> 0, nCreate |-> 0, nUpdate |-> 0, nStock |-> 0, nVariant |-> 0,
      nProduct |-> 0,         \* calls issued so far, per function
      nPublish |-> [c \in CHANNELS |-> 0],   \* publish calls issued, per channel id
      pubTrue |-> 0,          \* publish calls answered true
      falseAt |-> 0,          \* position in channelIds of the first call answered false
      productFailed |-> FALSE, \* updateShopifyProduct caught an error and returned null
      price |-> 0,            \* product.price
      stock |-> 0,            \* Math.floor(parseFloat(product.totalQuantityOnHand) || 0)
      reduced |-> FALSE ]     \* the result loop has counted it

N == Len(productsToSync)

\* channelIds && channelIds.length > 0
WantsPublish == ~channelIds.isNull /\ Len(channelIds.ids) > 0

\* .filter(p => p.sku) over the normalized records; a record without
\* attributes normalizes to sku undefined.
RECURSIVE FilterSku(_)
FilterSku(s) ==
    IF s = <<>> THEN <<>>
    ELSE IF Head(s).hasAttr /\ Head(s).sku # 0
         THEN <<Head(s).sku>> \o FilterSku(Tail(s))
         ELSE FilterSku(Tail(s))

\* The records that pass the filter, in source order.
RECURSIVE FilterRecs(_)
FilterRecs(s) ==
    IF s = <<>> THEN <<>>
    ELSE IF Head(s).hasAttr /\ Head(s).sku # 0
         THEN <<Head(s)>> \o FilterRecs(Tail(s))
         ELSE FilterRecs(Tail(s))

\* The pipeline of a normalized record: price is defaultPrice.unitPrice and
\* totalQuantityOnHand the sum of the inventory lines.
ItemOf(r) == [NewItem EXCEPT !.price = UnitPrice(r), !.stock = Floor(QuantityOnHand(r))]

\* Array.prototype.find: the first position satisfying the test, 0 if none.
FindFirst(s, Test(_)) ==
    IF \E p \in 1 .. Len(s) : Test(s[p])
    THEN CHOOSE p \in 1 .. Len(s) : Test(s[p]) /\ \A q \in 1 .. (p - 1) : ~Test(s[q])
    ELSE 0

HasImg(r) == r.hasImg

HasStock(r) == r.hasStock

\* The two debug lookups read withImages.attributes.name and
\* withStock.attributes.name of the record they found: a TypeError when that
\* record has no attributes object.
DebugThrows(s) ==
    \/ FindFirst(s, HasImg) # 0 /\ ~s[FindFirst(s, HasImg)].hasAttr
    \/ FindFirst(s, HasStock) # 0 /\ ~s[FindFirst(s, HasStock)].hasAttr

\* productsToSync.slice(i, i + BATCH_SIZE), as positions first .. last.
BatchFirst(off) == off + 1

\* Mutant: the slice takes one element too many.
BatchLastOver(off, n) == Min(off + BATCH_SIZE + 1, n)

BatchLast(off, n) == Min(off + BATCH_SIZE, n)

InBatch(k, off) == BatchFirst(off) <= k /\ k <= BatchLast(off, N)

\* Mutant: the join resolves as soon as one callback has returned.
BatchAnySettled(off) == \E k \in DOMAIN item : InBatch(k, off) /\ item[k].pc = "settled"

\* Promise.allSettled(batch.map(...)) has resolved.
BatchSettled(off) == \A k \in DOMAIN item : InBatch(k, off) => item[k].pc = "settled"

\* --------------------------------------------------------- item pipelines

\* The callback returns: { status: 'updated' | 'created', ... }.
Settle(it, st) == [it EXCEPT !.pc = "settled", !.status = st]

\* catch (error) { return { status: 'failed', sku, error: error.message } }
Fail(it, call) == [it EXCEPT !.pc = "settled", !.status = "failed", !.raised = call]

\* Mutant: without channels the product is published to channel 1.
EnterPublishDefault(it, st) ==
    IF WantsPublish
    THEN [it EXCEPT !.pc = "publishing", !.chan = 1,
                    !.nPublish[channelIds.ids[1]] = @ + 1]
    ELSE [it EXCEPT !.pc = "publishing", !.chan = 1, !.nPublish[1] = @ + 1]

\* The publish loop is entered: the first publishProductToChannel call is
\* issued, or there is no channel and the callback returns.
EnterPublish(it, st) ==
    IF WantsPublish
    THEN [it EXCEPT !.pc = "publishing", !.chan = 1,
                    !.nPublish[channelIds.ids[1]] = @ + 1]
    ELSE Settle(it, st)

\* The status the callback returns when its writes went through.
Outcome(it) == IF it.found = "record" THEN "updated" ELSE "created"

Running(k) == phase = "batch" /\ k \in DOMAIN item

\* Mutant: searchShopifyBySku drops the variant it found and returns null.
LocateFoundAsNull(k) ==
    /\ Running(k) /\ item[k].pc = "locating"
    /\ sink[productsToSync[k]].n > 0
    /\ item' = [item EXCEPT ![k] =
                   [@ EXCEPT !.found = "null", !.pc = "creating", !.nCreate = @ + 1]]
    /\ UNCHANGED << env, sink, phase, inflowProducts, productsToSync, summary, i, faults,
                    result, httpStatus,
                    exit, fetched, launched, hist, logs >>

\* searchShopifyBySku returns a variant: updateShopifyVariant is called and
\* issues the stock write when the variant exposes both ids, else the PUT.
LocateFound(k) ==
    /\ Running(k) /\ item[k].pc = "locating"
    /\ sink[productsToSync[k]].n > 0
    /\ LET e == sink[productsToSync[k]]
           it == [item[k] EXCEPT !.found = "record", !.inv = ExposesStockIds(e),
                                 !.prod = e.prod, !.nUpdate = @ + 1]
       IN item' = [item EXCEPT ![k] =
                      IF ExposesStockIds(e) THEN [it EXCEPT !.pc = "stock", !.nStock = @ + 1]
                      ELSE [it EXCEPT !.pc = "variant", !.nVariant = @ + 1]]
    /\ UNCHANGED << env, sink, phase, inflowProducts, productsToSync, summary, i, faults,
                    result, httpStatus, exit, fetched, launched, hist, logs >>

\* Mutant: a null from searchShopifyBySku is handled as a failure.
LocateNullFails(k) ==
    /\ Running(k) /\ item[k].pc = "locating"
    /\ sink[productsToSync[k]].n = 0
    /\ item' = [item EXCEPT ![k] = Settle([@ EXCEPT !.found = "null"], "failed")]
    /\ UNCHANGED << env, sink, phase, inflowProducts, productsToSync, summary, i, faults,
                    result, httpStatus,
                    exit, fetched, launched, hist, logs >>

\* searchShopifyBySku returns null: createShopifyProduct is called.
LocateNull(k) ==
    /\ Running(k) /\ item[k].pc = "locating"
    /\ sink[productsToSync[k]].n = 0
    /\ item' = [item EXCEPT ![k] =
                   [@ EXCEPT !.found = "null", !.pc = "creating", !.nCreate = @ + 1]]
    /\ UNCHANGED << env, sink, phase, inflowProducts, productsToSync, summary, i, faults,
                    result, httpStatus, exit, fetched, launched, hist, logs >>

\* A call of item k raises and the callback's catch returns 'failed'.
Raise(k, at, call) ==
    /\ Running(k) /\ item[k].pc = at
    /\ faults < MaxFaults
    /\ faults' = faults + 1
    /\ item' = [item EXCEPT ![k] =
                   Fail(IF at = "locating" THEN [@ EXCEPT !.found = "raised"] ELSE @, call)]
    /\ UNCHANGED << env, sink, phase, inflowProducts, productsToSync, summary, i, result, httpStatus,
                    exit, fetched, launched, hist, logs >>

\* Mutant: the exception is not caught per item; it rejects the batch and the
\* outer catch ends the run while the siblings are in flight.
LocateRaiseAborts(k) ==
    /\ Running(k) /\ item[k].pc = "locating"
    /\ faults < MaxFaults
    /\ faults' = faults + 1
    /\ item' = [item EXCEPT ![k] = Fail([@ EXCEPT !.found = "raised"], "locate")]
    /\ result' = Returned(FALSE, summary)
    /\ httpStatus' = HttpStatus(Returned(FALSE, summary))
    /\ exit' = "throw"
    /\ phase' = "idle"
    /\ UNCHANGED << env, sink, inflowProducts, productsToSync, summary, i, fetched, launched,
                    hist, logs >>

\* Mutant: a failed Locate call is issued again.
LocateRetry(k) ==
    /\ Running(k) /\ item[k].pc = "locating"
    /\ faults < MaxFaults
    /\ faults' = faults + 1
    /\ item' = [item EXCEPT ![k] = [@ EXCEPT !.nLocate = @ + 1]]
    /\ UNCHANGED << env, sink, phase, inflowProducts, productsToSync, summary, i, result, httpStatus, exit,
                    fetched, launched, hist, logs >>

\* searchShopifyBySku throws 'Shopify search failed for SKU ...'.
LocateRaise(k) == Raise(k, "locating", "locate")

\* updateShopifyStock resolves: updateShopifyVariant goes on to the variant PUT.
StockOk(k) ==
    /\ Running(k) /\ item[k].pc = "stock"
    /\ sink' = [sink EXCEPT ![productsToSync[k]].stock = item[k].stock]
    /\ item' = [item EXCEPT ![k] = [@ EXCEPT !.pc = "variant", !.nVariant = @ + 1]]
    /\ UNCHANGED << env, phase, inflowProducts, productsToSync, summary, i, faults,
                    result, httpStatus, exit, fetched, launched, hist, logs >>

\* Mutant: updateShopifyVariant swallows the failed stock write and goes on
\* to the variant PUT.
StockRaiseGoesOn(k) ==
    /\ Running(k) /\ item[k].pc = "stock"
    /\ faults < MaxFaults
    /\ faults' = faults + 1
    /\ item' = [item EXCEPT ![k] = [@ EXCEPT !.pc = "variant", !.nVariant = @ + 1]]
    /\ UNCHANGED << env, sink, phase, inflowProducts, productsToSync, summary, i, result, httpStatus,
                    exit, fetched, launched, hist, logs >>

\* updateShopifyStock throws; updateShopifyVariant rethrows.
StockRaise(k) == Raise(k, "stock", "stock")

\* The variant PUT resolves: updateShopifyProduct is called when the variant
\* has a product id; without one the publish loop is skipped too.
VariantOk(k) ==
    /\ Running(k) /\ item[k].pc = "variant"
    /\ item' = [item EXCEPT ![k] =
                   IF @.prod THEN [@ EXCEPT !.pc = "product", !.nProduct = @ + 1]
                   ELSE Settle(@, "updated")]
    /\ sink' = [sink EXCEPT ![productsToSync[k]].price = item[k].price]
    /\ UNCHANGED << env, phase, inflowProducts, productsToSync, summary, i, faults,
                    result, httpStatus, exit, fetched, launched, hist, logs >>

VariantRaise(k) == Raise(k, "variant", "variant")

\* updateShopifyProduct returns the product.
ProductOk(k) ==
    /\ Running(k) /\ item[k].pc = "product"
    /\ item' = [item EXCEPT ![k] = EnterPublish(@, "updated")]
    /\ UNCHANGED << env, sink, phase, inflowProducts, productsToSync, summary, i, faults,
                    result, httpStatus, exit, fetched, launched, hist, logs >>

\* Mutant: updateShopifyProduct rethrows what it caught.
ProductFailRaises(k) == Raise(k, "product", "product")

\* The product PUT fails: updateShopifyProduct logs and returns null.
ProductFail(k) ==
    /\ Running(k) /\ item[k].pc = "product"
    /\ faults < MaxFaults
    /\ faults' = faults + 1
    /\ item' = [item EXCEPT ![k] = EnterPublish([@ EXCEPT !.productFailed = TRUE], "updated")]
    /\ UNCHANGED << env, sink, phase, inflowProducts, productsToSync, summary, i, result, httpStatus,
                    exit, fetched, launched, hist, logs >>

\* createShopifyProduct returns the created product, whose variant Shopify
\* tracks (inventory_management: 'shopify').
\* Mutant: the callback counts the product it created itself.
CreateOkCounts(k) ==
    /\ Running(k) /\ item[k].pc = "creating"
    /\ LET s == productsToSync[k]
       IN sink' = [sink EXCEPT ![s] =
                      IF @.n = 0
                      THEN [SinkEntry(1, TRUE, TRUE) EXCEPT !.price = item[k].price,
                                                            !.stock = item[k].stock]
                      ELSE [@ EXCEPT !.n = @ + 1]]
    /\ item' = [item EXCEPT ![k] = EnterPublish(@, "created")]
    /\ summary' = [summary EXCEPT !.created = @ + 1]
    /\ UNCHANGED << env, phase, inflowProducts, productsToSync, i, faults, result, httpStatus,
                    exit, fetched, launched, hist, logs >>

CreateOk(k) ==
    /\ Running(k) /\ item[k].pc = "creating"
    /\ LET s == productsToSync[k]
       IN sink' = [sink EXCEPT ![s] =
                      IF @.n = 0
                      THEN [SinkEntry(1, TRUE, TRUE) EXCEPT !.price = item[k].price,
                                                            !.stock = item[k].stock]
                      ELSE [@ EXCEPT !.n = @ + 1]]
    /\ item' = [item EXCEPT ![k] = EnterPublish(@, "created")]
    /\ UNCHANGED << env, phase, inflowProducts, productsToSync, summary, i, faults, result, httpStatus,
                    exit, fetched, launched, hist, logs >>

CreateRaise(k) == Raise(k, "creating", "create")

\* A publishProductToChannel call has returned: the loop issues the next
\* call, or the callback returns.
\* Mutant: the loop ends after its first publish call.
AfterPublishOnce(it) == Settle(it, Outcome(it))

AfterPublish(it) ==
    IF it.chan < Len(channelIds.ids)
    THEN [it EXCEPT !.chan = @ + 1, !.nPublish[channelIds.ids[it.chan + 1]] = @ + 1]
    ELSE Settle(it, Outcome(it))

\* Mutant: a publish call answered true is counted twice.
PublishTrueTwice(k) ==
    /\ Running(k) /\ item[k].pc = "publishing"
    /\ item' = [item EXCEPT ![k] =
                   AfterPublish([@ EXCEPT !.publishedCount = @ + 2, !.pubTrue = @ + 1])]
    /\ UNCHANGED << env, sink, phase, inflowProducts, productsToSync, summary, i, faults,
                    result, httpStatus, exit, fetched, launched, hist, logs >>

\* if (published) publishedCount++
PublishTrue(k) ==
    /\ Running(k) /\ item[k].pc = "publishing"
    /\ item' = [item EXCEPT ![k] =
                   AfterPublish([@ EXCEPT !.publishedCount = @ + 1, !.pubTrue = @ + 1])]
    /\ UNCHANGED << env, sink, phase, inflowProducts, productsToSync, summary, i, faults,
                    result, httpStatus, exit, fetched, launched, hist, logs >>

\* Mutant: publishProductToChannel rethrows instead of returning false.
PublishFalseRaises(k) == Raise(k, "publishing", "publish")

\* publishProductToChannel returns false: userErrors, or a transport failure.
PublishFalse(k) ==
    /\ Running(k) /\ item[k].pc = "publishing"
    /\ faults < MaxFaults
    /\ faults' = faults + 1
    /\ item' = [item EXCEPT ![k] =
                   AfterPublish([@ EXCEPT !.falseAt = IF @ = 0 THEN item[k].chan ELSE @])]
    /\ UNCHANGED << env, sink, phase, inflowProducts, productsToSync, summary, i, result, httpStatus,
                    exit, fetched, launched, hist, logs >>

\* ---------------------------------------------------------------- the run

\* return { success, logs, summary }: the run is over, and the endpoint that
\* awaited it answers the request.
Return(ok, sum, how) ==
    /\ result' = Returned(ok, sum)
    /\ httpStatus' = HttpStatus(Returned(ok, sum))
    /\ summary' = sum
    /\ exit' = how
    /\ phase' = "idle"

\* log('Processing batch ...') and batch.map(async (product) => ...): every
\* callback of the batch runs up to its first await, the Locate call.
Launch(items, off) ==
    [k \in DOMAIN items |->
        IF BatchFirst(off) <= k /\ k <= BatchLast(off, Len(items))
        THEN [items[k] EXCEPT !.pc = "locating", !.nLocate = @ + 1]
        ELSE items[k]]

\* logs.push(logEntry): an entry, reduced to the log call that made it, the
\* SKU and the number it prints, and the error message it quotes.
Entry(kind, sku, n, text) == [kind |-> kind, sku |-> sku, n |-> n, text |-> text]

\* The entries logged before fetchInflowProducts is called.
StartLogs ==
    << Entry("start", 0, 0, "") >>
    \o (IF WantsPublish THEN << Entry("channels", 0, Len(channelIds.ids), "") >> ELSE <<>>)
    \o << Entry("fetching", 0, 0, "") >>

\* The outer catch: log(`Sync failed: ${error.message}`).
SyncFailed(msg) == Entry("syncFailed", 0, 0, msg)

\* The message of the configuration check that throws.
ConfigError(c) ==
    IF ~c.inflowToken THEN "INFLOW_API_TOKEN is not configured"
    ELSE "Shopify credentials are not configured"

\* What the two debug lookups log: nothing more once one of them throws.
DebugLogs(s) ==
    LET im == FindFirst(s, HasImg)
        st == FindFirst(s, HasStock)
    IN  IF im # 0 /\ ~s[im].hasAttr THEN <<>>
        ELSE << IF im # 0 THEN Entry("withImages", s[im].sku, im, "")
                ELSE Entry("noImages", 0, 0, "") >>
             \o (IF st # 0 /\ s[st].hasAttr
                 THEN << Entry("withStock", s[st].sku, st, "") >> ELSE <<>>)

\* Mutant: the skip line is logged whatever the number of dropped records.
PreludeSkipAlways(s) ==
    << Entry("fetched", 0, Len(s), ""), Entry("startShopify", 0, 0, "") >>
    \o DebugLogs(s)
    \o << Entry("batchSync", 0, BATCH_SIZE, "") >>
    \o << Entry("skipping", 0, Len(s) - Len(FilterSku(s)), "") >>

\* The entries from the return of the fetch to the batch loop.
Prelude(s) ==
    << Entry("fetched", 0, Len(s), ""), Entry("startShopify", 0, 0, "") >>
    \o DebugLogs(s)
    \o << Entry("batchSync", 0, BATCH_SIZE, "") >>
    \o (IF Len(s) - Len(FilterSku(s)) > 0
        THEN << Entry("skipping", 0, Len(s) - Len(FilterSku(s)), "") >> ELSE <<>>)

\* log(`Processing batch ... (${batch.length} products)...`)
BatchLog(off, n) == Entry("batch", 0, BatchLast(off, n) - off, "")

\* Mutant: the line of a failed result leaves out the SKU.
ResultLogNoSku(it, sku) ==
    IF it.status = "failed" THEN Entry("failed", 0, 0, it.raised)
    ELSE Entry(it.status, sku, it.publishedCount, "")

\* The line the result loop logs for one result: the SKU with 'Updated' or
\* 'Created' and the publish count, or the SKU with the error message.
ResultLog(it, sku) ==
    IF it.status = "failed" THEN Entry("failed", sku, 0, it.raised)
    ELSE Entry(it.status, sku, it.publishedCount, "")

\* Mutant: the result loop walks the results from the last to the first.
RECURSIVE ResultLogsBackwards(_, _, _, _)
ResultLogsBackwards(items, skus, from, to) ==
    IF from > to THEN <<>>
    ELSE ResultLogsBackwards(items, skus, from + 1, to)
         \o << ResultLog(items[from], skus[from]) >>

RECURSIVE ResultLogs(_, _, _, _)
ResultLogs(items, skus, from, to) ==
    IF from > to THEN <<>>
    ELSE << ResultLog(items[from], skus[from]) >> \o ResultLogs(items, skus, from + 1, to)

\* The final summary block.
SummaryLogs(sum) ==
    << Entry("rule", 0, 0, ""), Entry("complete", 0, 0, ""),
       Entry("Total Products", 0, sum.total, ""), Entry("Created", 0, sum.created, ""),
       Entry("Updated", 0, sum.updated, ""), Entry("Published", 0, sum.published, ""),
       Entry("Failed", 0, sum.failed, "") >>

\* startSync(channelIds) is called: logs and summary are created and the
\* configuration is validated; a missing credential throws into the outer
\* catch, otherwise fetchInflowProducts is called.
StartSync ==
    /\ phase = "idle"
    /\ runsLeft > 0
    /\ runsLeft' = runsLeft - 1
    /\ prev' = [returned |-> result.returned, success |-> result.success, exit |-> exit]
    /\ sink0' = sink
    /\ inflowProducts' = <<>>
    /\ productsToSync' = <<>>
    /\ item' = <<>>
    /\ i' = 0
    /\ fetched' = 0
    /\ launched' = <<>>
    /\ IF configOk
       THEN /\ phase' = "fetching"
            /\ summary' = ZeroSummary
            /\ result' = NoResult
            /\ httpStatus' = 0
            /\ exit' = "running"
       ELSE Return(FALSE, ZeroSummary, "config")
    /\ nFetch' = (IF configOk THEN 1 ELSE 0)
    /\ pauses' = 0
    /\ logs' = (IF configOk THEN StartLogs ELSE << SyncFailed(ConfigError(cred)) >>)
    /\ UNCHANGED << env, sink, faults >>

\* Mutant: a failed fetch is issued again.
FetchFailRetries ==
    /\ phase = "fetching"
    /\ faults < MaxFaults
    /\ faults' = faults + 1
    /\ nFetch' = nFetch + 1
    /\ UNCHANGED << env, sink, phase, inflowProducts, productsToSync, summary, i, item, result, httpStatus,
                    exit, prev, fetched, launched, runsLeft, sink0, logs, pauses >>

\* Mutant: the outer catch returns a log that holds the failure alone.
FetchFailFreshLog ==
    /\ phase = "fetching"
    /\ faults < MaxFaults
    /\ faults' = faults + 1
    /\ Return(FALSE, summary, "fetch")
    /\ logs' = << SyncFailed("Failed to fetch inFlow products") >>
    /\ UNCHANGED << env, sink, inflowProducts, productsToSync, i, item, fetched, launched,
                    hist >>

\* fetchInflowProducts throws 'Failed to fetch inFlow products': the outer
\* catch logs 'Sync failed' and returns.
FetchFail ==
    /\ phase = "fetching"
    /\ faults < MaxFaults
    /\ faults' = faults + 1
    /\ Return(FALSE, summary, "fetch")
    /\ logs' = Append(logs, SyncFailed("Failed to fetch inFlow products"))
    /\ UNCHANGED << env, sink, inflowProducts, productsToSync, i, item, fetched, launched,
                    hist >>

\* Mutant: total counts the records that have a SKU.
WithTotalSkuOnly(sum, products) == [sum EXCEPT !.total = Len(FilterSku(products))]

\* summary.total = inflowProducts.length
WithTotal(sum, products) == [sum EXCEPT !.total = Len(products)]

\* Mutant: the empty fetch falls through to the final summary block.
FetchEmptySummarized ==
    /\ phase = "fetching"
    /\ Len(source) = 0
    /\ inflowProducts' = source
    /\ fetched' = Len(source)
    /\ Return(TRUE, WithTotal(summary, source), "empty")
    /\ logs' = logs \o << Entry("fetched", 0, 0, ""), Entry("startShopify", 0, 0, "") >>
                    \o SummaryLogs(WithTotal(summary, source))
    /\ UNCHANGED << env, sink, productsToSync, i, item, faults, launched, hist >>

\* The fetch returns no record: 'No products found', return success.
FetchEmpty ==
    /\ phase = "fetching"
    /\ Len(source) = 0
    /\ inflowProducts' = source
    /\ fetched' = Len(source)
    /\ Return(TRUE, WithTotal(summary, source), "empty")
    /\ logs' = logs \o << Entry("fetched", 0, 0, ""), Entry("empty", 0, 0, "") >>
    /\ UNCHANGED << env, sink, productsToSync, i, item, faults, launched, hist >>

\* The fetch returns records and a debug lookup throws a TypeError, which
\* the outer catch turns into 'Sync failed'.
FetchThrows ==
    /\ phase = "fetching"
    /\ Len(source) > 0
    /\ DebugThrows(source)
    /\ inflowProducts' = source
    /\ fetched' = Len(source)
    /\ Return(FALSE, WithTotal(summary, source), "throw")
    /\ logs' = logs \o << Entry("fetched", 0, Len(source), ""), Entry("startShopify", 0, 0, "") >>
                    \o DebugLogs(source)
                    \o << SyncFailed("Cannot read properties of undefined") >>
    /\ UNCHANGED << env, sink, productsToSync, i, item, faults, launched, hist >>

\* Mutant: the normal return reports success whatever failed.
FinishAlwaysOk(sum) == Return(TRUE, sum, "normal")

\* The final summary block and return { success: summary.failed === 0, ... }.
Finish(sum) == Return(sum.failed = 0, sum, "normal")

\* The fetch returns records none of which has a SKU: the batch loop is not
\* entered.
FetchNoSku ==
    /\ phase = "fetching"
    /\ Len(source) > 0
    /\ ~DebugThrows(source)
    /\ FilterSku(source) = <<>>
    /\ inflowProducts' = source
    /\ fetched' = Len(source)
    /\ productsToSync' = <<>>
    /\ Finish(WithTotal(summary, source))
    /\ logs' = logs \o Prelude(source) \o SummaryLogs(WithTotal(summary, source))
    /\ UNCHANGED << env, sink, i, item, faults, launched, hist >>

\* The fetch returns records: they are normalized and filtered, and the
\* first batch is launched.
FetchOk ==
    /\ phase = "fetching"
    /\ Len(source) > 0
    /\ ~DebugThrows(source)
    /\ FilterSku(source) # <<>>
    /\ inflowProducts' = source
    /\ fetched' = Len(source)
    /\ summary' = WithTotal(summary, source)
    /\ productsToSync' = FilterSku(source)
    /\ i' = 0
    /\ item' = Launch([k \in 1 .. Len(FilterSku(source)) |-> ItemOf(FilterRecs(source)[k])], 0)
    /\ launched' = <<  <<BatchFirst(0), BatchLast(0, Len(FilterSku(source)))>>  >>
    /\ phase' = "batch"
    /\ logs' = logs \o Prelude(source) \o << BatchLog(0, Len(FilterSku(source))) >>
    /\ UNCHANGED << env, sink, faults, result, httpStatus, exit, hist >>

\* Mutant: the publish calls made are counted, not those that returned true.
PublishedAttempts(it) == it.chan

\* data.publishedCount || 0
PublishedOf(it) == it.publishedCount

\* for (const result of results): one counter per result, and the publish
\* count of the created and the updated ones.
Count(items, off, st) ==
    Cardinality({ k \in DOMAIN items :
                    BatchFirst(off) <= k /\ k <= BatchLast(off, Len(items))
                    /\ items[k].status = st })

RECURSIVE SumPublished(_, _, _)
SumPublished(items, from, to) ==
    IF from > to THEN 0
    ELSE (IF items[from].status \in {"created", "updated"} THEN PublishedOf(items[from]) ELSE 0)
         + SumPublished(items, from + 1, to)

\* Mutant: the result loop also overwrites total with the items counted.
ReduceRetotal(sum, items, off) ==
    [sum EXCEPT !.created = @ + Count(items, off, "created"),
                !.updated = @ + Count(items, off, "updated"),
                !.failed = @ + Count(items, off, "failed"),
                !.published = @ + SumPublished(items, BatchFirst(off),
                                               BatchLast(off, Len(items))),
                !.total = BatchLast(off, Len(items))]

\* Mutant: the result loop has no branch for a failed result.
ReduceNoFailed(sum, items, off) ==
    [sum EXCEPT !.created = @ + Count(items, off, "created"),
                !.updated = @ + Count(items, off, "updated"),
                !.published = @ + SumPublished(items, BatchFirst(off),
                                               BatchLast(off, Len(items)))]

Reduce(sum, items, off) ==
    [sum EXCEPT !.created = @ + Count(items, off, "created"),
                !.updated = @ + Count(items, off, "updated"),
                !.failed = @ + Count(items, off, "failed"),
                !.published = @ + SumPublished(items, BatchFirst(off),
                                               BatchLast(off, Len(items)))]

MarkReduced(items, off) ==
    [k \in DOMAIN items |->
        IF BatchFirst(off) <= k /\ k <= BatchLast(off, Len(items))
        THEN [items[k] EXCEPT !.reduced = TRUE]
        ELSE items[k]]

\* Mutant: the pause is also taken when the batch ends the list.
MoreBatchesInclusive(off) == off + BATCH_SIZE <= N

\* i + BATCH_SIZE < productsToSync.length
MoreBatches(off) == off + BATCH_SIZE < N

\* allSettled resolves: the results are reduced into the summary; then the
\* 100 ms pause before the next batch, or the final summary and the return.
ReduceBatch ==
    /\ phase = "batch"
    /\ BatchSettled(i)
    /\ item' = MarkReduced(item, i)
    /\ IF MoreBatches(i)
       THEN /\ summary' = Reduce(summary, item, i)
            /\ phase' = "pause"
            /\ pauses' = pauses + 1
            /\ UNCHANGED << result, httpStatus, exit >>
       ELSE /\ Finish(Reduce(summary, item, i))
            /\ pauses' = pauses
    /\ logs' = logs \o ResultLogs(item, productsToSync, BatchFirst(i), BatchLast(i, N))
                    \o (IF MoreBatches(i) THEN <<>> ELSE SummaryLogs(Reduce(summary, item, i)))
    /\ UNCHANGED << env, sink, inflowProducts, productsToSync, i, faults, fetched, launched,
                    prev, runsLeft, sink0, nFetch >>

\* Mutant: the promise of the pause is never resolved.
NextBatchNever == phase = "pause" /\ FALSE /\ UNCHANGED vars

\* The pause is over: i += BATCH_SIZE and the next batch is launched.
NextBatch ==
    /\ phase = "pause"
    /\ i' = i + BATCH_SIZE
    /\ item' = Launch(item, i + BATCH_SIZE)
    /\ launched' = Append(launched, <<BatchFirst(i + BATCH_SIZE), BatchLast(i + BATCH_SIZE, N)>>)
    /\ phase' = "batch"
    /\ logs' = Append(logs, BatchLog(i + BATCH_SIZE, N))
    /\ UNCHANGED << env, sink, inflowProducts, productsToSync, summary, faults, result, httpStatus, exit,
                    fetched, hist >>

\* -------------------------------------------------------- the specification

\* The state when the process has started, before startSync is called.
Start(runs) ==
    /\ cred \in Credentials
    /\ phase = "idle"
    /\ inflowProducts = <<>>
    /\ productsToSync = <<>>
    /\ summary = ZeroSummary
    /\ i = 0
    /\ item = <<>>
    /\ faults = 0
    /\ result = NoResult
    /\ exit = "none"
    /\ prev = [returned |-> FALSE, success |-> FALSE, exit |-> "none"]
    /\ fetched = 0
    /\ launched = <<>>
    /\ runsLeft = runs
    /\ nFetch = 0
    /\ logs = <<>>
    /\ pauses = 0
    /\ httpStatus = 0

\* No record is normalized on its own.
NoNormalizer == raw = NoRaw /\ product = NoProduct /\ payload = NoPayload

\* fetchShopifyLocations is not called: startSync does not call it.
NoLookups == primaryLocationId = 0 /\ lookup = [c \in CALLERS |-> NoCall]

\* The two calls of startSync that overlap.
CALLS == { 1, 2 }

\* A call of startSync that has not been made, with the locals of the call.
NoRun ==
    [ phase |-> "none", inflowProducts |-> <<>>, productsToSync |-> <<>>,
      summary |-> ZeroSummary, item |-> <<>>, result |-> NoResult, exit |-> "none",
      logs |-> <<>>,
      overlapped |-> FALSE ]   \* the other call was in progress during this one

\* No overlapping calls of startSync.
NoCalls == calls = [r \in CALLS |-> NoRun]

\* The sync requests one dashboard makes while it is mounted.
REQUESTS == 1 .. MaxClicks

\* useState(null) for summary.
NullSummary == [kind |-> "null", total |-> 0, failed |-> 0]

\* A sync request the dashboard has not made.
NoRequest == [pc |-> "none", channelIds |-> ChannelArg(TRUE, <<>>), json |-> FALSE,
              total |-> 0, failed |-> 0]

\* No dashboard is mounted.
NoDashboard ==
    dash = [version |-> "none", isLoading |-> FALSE, summary |-> NullSummary,
            channelsLoading |-> FALSE, channels |-> <<>>,
            requests |-> [r \in REQUESTS |-> NoRequest]]

\* Up to `runs` consecutive runs over a list of at most MaxOddBase records with any
\* channelIds and sink; one run over a longer short list with any sink and
\* at most one channel; or one run over a long list into an empty sink
\* with at most one channel.
Scenario(runs) ==
    /\ \/ /\ Start(runs)
          /\ source \in ShortLists /\ Len(source) <= MaxOddBase
          /\ channelIds \in ChannelLists
          /\ sink \in SinkInits
       \/ /\ Start(1)
          /\ source \in ShortLists /\ Len(source) > MaxOddBase
          /\ channelIds \in { ChannelArg(TRUE, <<>>), ChannelArg(FALSE, <<1>>) }
          /\ sink \in SinkInits
       \/ /\ Start(1)
          /\ source \in LongLists
          /\ channelIds \in { ChannelArg(TRUE, <<>>), ChannelArg(FALSE, <<1>>) }
          /\ sink = EmptySink
    /\ sink0 = sink
    /\ NoNormalizer
    /\ NoLookups
    /\ NoCalls
    /\ NoDashboard

Init == Scenario(MaxRuns)

\* The same scenarios with one call of startSync.
OneRun == Scenario(1)

\* What the event loop runs for a started run: the continuation of an
\* answered call, of the resolved join, or of the pause's timer.
Respond ==
    \/ FetchFail
    \/ FetchEmpty
    \/ FetchThrows
    \/ FetchNoSku
    \/ FetchOk
    \/ \E k \in DOMAIN item : LocateFound(k)
    \/ \E k \in DOMAIN item : LocateNull(k)
    \/ \E k \in DOMAIN item : LocateRaise(k)
    \/ \E k \in DOMAIN item : StockOk(k)
    \/ \E k \in DOMAIN item : StockRaise(k)
    \/ \E k \in DOMAIN item : VariantOk(k)
    \/ \E k \in DOMAIN item : VariantRaise(k)
    \/ \E k \in DOMAIN item : ProductOk(k)
    \/ \E k \in DOMAIN item : ProductFail(k)
    \/ \E k \in DOMAIN item : CreateOk(k)
    \/ \E k \in DOMAIN item : CreateRaise(k)
    \/ \E k \in DOMAIN item : PublishTrue(k)
    \/ \E k \in DOMAIN item : PublishFalse(k)
    \/ ReduceBatch
    \/ NextBatch

Next == StartSync \/ Respond

Spec == Init /\ [][Next]_vars

\* Every outbound call eventually settles and every timer eventually fires:
\* a continuation that can run is not put off for ever.  When startSync is
\* called is up to the caller, and one call is followed to its return.
LiveSpec == OneRun /\ [][Next]_vars /\ WF_vars(Respond)

\* ------------------------------------- the normalizer applied to one record

\* The variables of startSync.
run ==
    << cred, source, channelIds, sink, phase, inflowProducts, productsToSync,
       summary, i, item, faults, result, httpStatus, exit, prev, fetched, launched,
       runsLeft, sink0, nFetch, logs, pauses >>

\* No run of startSync, now or later.
Quiet ==
    /\ Start(0)
    /\ cred = [inflowToken |-> TRUE, accessToken |-> TRUE, storeDomain |-> TRUE]
    /\ source = <<>>
    /\ channelIds = ChannelArg(TRUE, <<>>)
    /\ sink = EmptySink
    /\ sink0 = sink

\* The .map callback returns the normalized record.
NormalizeRecord ==
    /\ ~product.normalized
    /\ product' = Normalize(raw)
    /\ UNCHANGED << run, raw, payload, primaryLocationId, lookup, calls, dash >>

\* The payload for the sink is built from the normalized record.
BuildPayload ==
    /\ product.normalized /\ ~payload.built
    /\ payload' = PayloadOf(product)
    /\ UNCHANGED << run, raw, product, primaryLocationId, lookup, calls, dash >>

NormInit ==
    /\ Quiet
    /\ NoLookups
    /\ NoCalls
    /\ NoDashboard
    /\ raw \in StockInputs \cup ImageInputs
    /\ product = NoProduct
    /\ payload = NoPayload

NormNext == NormalizeRecord \/ BuildPayload

NormSpec == NormInit /\ [][NormNext]_vars

\* ------------------------------------------- calls of fetchShopifyLocations

\* if (primaryLocationId) return primaryLocationId; else the request for
\* the locations is issued.
CallLocations(c) ==
    /\ lookup[c].pc = "none"
    /\ lookup' = [lookup EXCEPT ![c] =
                     IF primaryLocationId # 0
                     THEN [@ EXCEPT !.pc = "returned", !.ret = primaryLocationId,
                                    !.seen = primaryLocationId]
                     ELSE [@ EXCEPT !.pc = "waiting", !.requested = TRUE]]
    /\ UNCHANGED << run, pure, primaryLocationId, calls, dash >>

\* The sink answers with locations, id the first active one: it is cached
\* and returned.
LocationsOk(c, id) ==
    /\ lookup[c].pc = "waiting"
    /\ primaryLocationId' = id
    /\ lookup' = [lookup EXCEPT ![c] = [@ EXCEPT !.pc = "returned", !.ret = id]]
    /\ UNCHANGED << run, pure, calls, dash >>

\* The request fails, or the sink has no location: the call throws.
LocationsFail(c) ==
    /\ lookup[c].pc = "waiting"
    /\ lookup' = [lookup EXCEPT ![c] = [@ EXCEPT !.pc = "thrown"]]
    /\ UNCHANGED << run, pure, primaryLocationId, calls, dash >>

LocInit ==
    /\ Quiet
    /\ NoNormalizer
    /\ NoLookups
    /\ NoCalls
    /\ NoDashboard

LocNext ==
    \/ \E c \in CALLERS : CallLocations(c)
    \/ \E c \in CALLERS : \E id \in LOCATIONS : LocationsOk(c, id)
    \/ \E c \in CALLERS : LocationsFail(c)

LocSpec == LocInit /\ [][LocNext]_vars

\* ------------------------------------------- two overlapping calls of startSync

(* Each call has its own logs, summary, productsToSync and pipelines, the  *)
(* locals of startSync; the calls share the source, the sink and the       *)
(* failing responses the environment gives.  The lists of this             *)
(* specification fit one batch.                                            *)

\* What the two calls leave alone: the variables of the single run, the
\* normalizer's and the location cache's.
aside ==
    << cred, source, channelIds, phase, inflowProducts, productsToSync, summary, i, item,
       result, httpStatus, exit, prev, fetched, launched, runsLeft, sink0, nFetch, logs, pauses, pure,
       primaryLocationId, lookup, dash >>

\* The entries call r pushes onto its logs.
By(r, entries) == [p \in 1 .. Len(entries) |-> [by |-> r, entry |-> entries[p]]]

\* return { success, logs, summary } of call r.
PairReturn(c, ok, sum, how) ==
    [c EXCEPT !.result = Returned(ok, sum), !.summary = sum, !.exit = how, !.phase = "idle"]

InProgress(r) == calls[r].phase \in { "fetching", "batch" }

\* startSync is called: the locals are created, the configuration is
\* checked and the fetch is issued.
PairStart(r) ==
    /\ calls[r].phase = "none"
    /\ calls' =
          [q \in CALLS |->
              IF q # r THEN [calls[q] EXCEPT !.overlapped = @ \/ InProgress(q)]
              ELSE IF configOk
                   THEN [calls[r] EXCEPT !.phase = "fetching", !.exit = "running",
                                         !.logs = By(r, StartLogs),
                                         !.overlapped = \E o \in CALLS \ {r} : InProgress(o)]
                   ELSE PairReturn([calls[r] EXCEPT !.logs =
                                        By(r, << SyncFailed(ConfigError(cred)) >>)],
                                   FALSE, ZeroSummary, "config")]
    /\ UNCHANGED << aside, sink, faults >>

\* fetchInflowProducts throws in call r.
PairFetchFail(r) ==
    /\ calls[r].phase = "fetching"
    /\ faults < MaxFaults
    /\ faults' = faults + 1
    /\ calls' = [calls EXCEPT ![r] =
                    PairReturn([@ EXCEPT !.logs = @ \o By(r, << SyncFailed(
                                                "Failed to fetch inFlow products") >>)],
                               FALSE, calls[r].summary, "fetch")]
    /\ UNCHANGED << aside, sink >>

\* The fetch of call r returns: no record, a debug lookup that throws, no
\* record with a SKU, or the one batch is launched.
PairFetch(r) ==
    /\ calls[r].phase = "fetching"
    /\ LET c == [calls[r] EXCEPT !.inflowProducts = source]
           sum == WithTotal(calls[r].summary, source)
           skus == FilterSku(source)
       IN calls' = [calls EXCEPT ![r] =
             IF Len(source) = 0
             THEN PairReturn([c EXCEPT !.logs = @ \o By(r, << Entry("fetched", 0, 0, ""),
                                                               Entry("empty", 0, 0, "") >>)],
                             TRUE, sum, "empty")
             ELSE IF DebugThrows(source)
             THEN PairReturn([c EXCEPT !.logs = @ \o By(r,
                                 << Entry("fetched", 0, Len(source), ""),
                                    Entry("startShopify", 0, 0, "") >>
                                 \o DebugLogs(source)
                                 \o << SyncFailed("Cannot read properties of undefined") >>)],
                             FALSE, sum, "throw")
             ELSE IF skus = <<>>
             THEN PairReturn([c EXCEPT !.logs = @ \o By(r, Prelude(source) \o SummaryLogs(sum))],
                             sum.failed = 0, sum, "normal")
             ELSE [c EXCEPT !.summary = sum,
                            !.productsToSync = skus,
                            !.item = Launch([k \in 1 .. Len(skus) |->
                                                ItemOf(FilterRecs(source)[k])], 0),
                            !.phase = "batch",
                            !.logs = @ \o By(r, Prelude(source)
                                                \o << BatchLog(0, Len(skus)) >>)]]
    /\ UNCHANGED << aside, sink, faults >>

PairRunning(r, k) == calls[r].phase = "batch" /\ k \in DOMAIN calls[r].item

PairSku(r, k) == calls[r].productsToSync[k]

\* searchShopifyBySku of item k of call r returns a variant or null.
PairLocate(r, k) ==
    /\ PairRunning(r, k) /\ calls[r].item[k].pc = "locating"
    /\ LET e == sink[PairSku(r, k)]
           it == [calls[r].item[k] EXCEPT !.found = "record", !.inv = ExposesStockIds(e),
                                          !.prod = e.prod, !.nUpdate = @ + 1]
       IN calls' = [calls EXCEPT ![r].item[k] =
                       IF e.n = 0
                       THEN [@ EXCEPT !.found = "null", !.pc = "creating", !.nCreate = @ + 1]
                       ELSE IF ExposesStockIds(e)
                            THEN [it EXCEPT !.pc = "stock", !.nStock = @ + 1]
                            ELSE [it EXCEPT !.pc = "variant", !.nVariant = @ + 1]]
    /\ UNCHANGED << aside, sink, faults >>

\* A call of item k of call r raises and the callback's catch returns 'failed'.
PairRaise(r, k) ==
    /\ PairRunning(r, k)
    /\ calls[r].item[k].pc \in { "locating", "stock", "variant", "creating" }
    /\ faults < MaxFaults
    /\ faults' = faults + 1
    /\ calls' = [calls EXCEPT ![r].item[k] =
                    Fail(IF @.pc = "locating" THEN [@ EXCEPT !.found = "raised"] ELSE @,
                         @.pc)]
    /\ UNCHANGED << aside, sink >>

PairStockOk(r, k) ==
    /\ PairRunning(r, k) /\ calls[r].item[k].pc = "stock"
    /\ sink' = [sink EXCEPT ![PairSku(r, k)].stock = calls[r].item[k].stock]
    /\ calls' = [calls EXCEPT ![r].item[k] = [@ EXCEPT !.pc = "variant", !.nVariant = @ + 1]]
    /\ UNCHANGED << aside, faults >>

PairVariantOk(r, k) ==
    /\ PairRunning(r, k) /\ calls[r].item[k].pc = "variant"
    /\ sink' = [sink EXCEPT ![PairSku(r, k)].price = calls[r].item[k].price]
    /\ calls' = [calls EXCEPT ![r].item[k] =
                    IF @.prod THEN [@ EXCEPT !.pc = "product", !.nProduct = @ + 1]
                    ELSE Settle(@, "updated")]
    /\ UNCHANGED << aside, faults >>

\* updateShopifyProduct returns the product, or null after a failed PUT.
PairProduct(r, k, ok) ==
    /\ PairRunning(r, k) /\ calls[r].item[k].pc = "product"
    /\ ~ok => faults < MaxFaults
    /\ faults' = (IF ok THEN faults ELSE faults + 1)
    /\ calls' = [calls EXCEPT ![r].item[k] =
                    EnterPublish([@ EXCEPT !.productFailed = ~ok], "updated")]
    /\ UNCHANGED << aside, sink >>

PairCreateOk(r, k) ==
    /\ PairRunning(r, k) /\ calls[r].item[k].pc = "creating"
    /\ sink' = [sink EXCEPT ![PairSku(r, k)] =
                   IF @.n = 0
                   THEN [SinkEntry(1, TRUE, TRUE) EXCEPT !.price = calls[r].item[k].price,
                                                         !.stock = calls[r].item[k].stock]
                   ELSE [@ EXCEPT !.n = @ + 1]]
    /\ calls' = [calls EXCEPT ![r].item[k] = EnterPublish(@, "created")]
    /\ UNCHANGED << aside, faults >>

\* publishProductToChannel returns true or false.
PairPublish(r, k, ok) ==
    /\ PairRunning(r, k) /\ calls[r].item[k].pc = "publishing"
    /\ ~ok => faults < MaxFaults
    /\ faults' = (IF ok THEN faults ELSE faults + 1)
    /\ calls' = [calls EXCEPT ![r].item[k] =
                    AfterPublish(IF ok THEN [@ EXCEPT !.publishedCount = @ + 1,
                                                      !.pubTrue = @ + 1]
                                 ELSE [@ EXCEPT !.falseAt = IF @ = 0 THEN calls[r].item[k].chan
                                                            ELSE @])]
    /\ UNCHANGED << aside, sink >>

\* Promise.allSettled of call r resolves: the result loop, the final
\* summary and the return.
PairReduce(r) ==
    /\ calls[r].phase = "batch"
    /\ \A k \in DOMAIN calls[r].item : calls[r].item[k].pc = "settled"
    /\ Len(calls[r].item) <= BATCH_SIZE
    /\ LET c == calls[r]
           sum == Reduce(c.summary, c.item, 0)
       IN calls' = [calls EXCEPT ![r] =
             PairReturn([c EXCEPT !.item = MarkReduced(c.item, 0),
                                  !.logs = @ \o By(r, ResultLogs(c.item, c.productsToSync,
                                                                 1, Len(c.item))
                                                      \o SummaryLogs(sum))],
                        sum.failed = 0, sum, "normal")]
    /\ UNCHANGED << aside, sink, faults >>

\* Lists with at most MaxPairSkus records that have a SKU; the calls ask
\* for a channel when there is at most one.
PairLists == { s \in ShortLists : Len(FilterSku(s)) <= MaxPairSkus }

PairInit ==
    /\ Start(0)
    /\ cred = [inflowToken |-> TRUE, accessToken |-> TRUE, storeDomain |-> TRUE]
    /\ source \in PairLists
    /\ channelIds \in { ChannelArg(TRUE, <<>>), ChannelArg(FALSE, <<1>>) }
    /\ Len(FilterSku(source)) > 1 => channelIds.isNull
    /\ sink \in { EmptySink, [s \in SKUS |-> SinkEntry(1, TRUE, TRUE)] }
    /\ sink0 = sink
    /\ NoNormalizer
    /\ NoLookups
    /\ NoCalls
    /\ NoDashboard

PairNext ==
    \/ \E r \in CALLS : PairStart(r)
    \/ \E r \in CALLS : PairFetchFail(r)
    \/ \E r \in CALLS : PairFetch(r)
    \/ \E r \in CALLS : \E k \in DOMAIN calls[r].item : PairLocate(r, k)
    \/ \E r \in CALLS : \E k \in DOMAIN calls[r].item : PairRaise(r, k)
    \/ \E r \in CALLS : \E k \in DOMAIN calls[r].item : PairStockOk(r, k)
    \/ \E r \in CALLS : \E k \in DOMAIN calls[r].item : PairVariantOk(r, k)
    \/ \E r \in CALLS : \E k \in DOMAIN calls[r].item : \E ok \in BOOLEAN : PairProduct(r, k, ok)
    \/ \E r \in CALLS : \E k \in DOMAIN calls[r].item : PairCreateOk(r, k)
    \/ \E r \in CALLS : \E k \in DOMAIN calls[r].item : \E ok \in BOOLEAN : PairPublish(r, k, ok)
    \/ \E r \in CALLS : PairReduce(r)

PairSpec == PairInit /\ [][PairNext]_vars

\* ------------------------------------------------------------ the dashboard

(* One mounted SyncDashboard.  The file holds the component twice: with    *)
(* the 'sync all' button (handleSyncAll) and with the channel dropdown     *)
(* (handleStartSync).  A click is a discrete event: the state updates of   *)
(* its handler are rendered before the next event is dispatched, so the    *)
(* button a click lands on shows the state left by the events before it.   *)

VERSIONS == { "handleSyncAll", "handleStartSync" }

\* What /api/channels can answer with.
ChannelAnswers == { <<>>, <<1>>, <<1, 2>> }

\* The component after its first render: fetchChannels is on its way.
Mounted(v) ==
    [version |-> v, isLoading |-> FALSE, summary |-> NullSummary,
     channelsLoading |-> TRUE, channels |-> <<>>,
     requests |-> [r \in REQUESTS |-> NoRequest]]

\* The disabled attribute of the sync button.
ButtonDisabled(d) ==
    IF d.version = "handleSyncAll" THEN d.isLoading \/ d.channelsLoading
    ELSE d.isLoading

\* The sync requests that have been sent and whose handler has not finished.
Outstanding(d) == { r \in REQUESTS : d.requests[r].pc \in {"fetching", "parsing"} }

\* channelIds of the request body: the list when it is not empty, else null.
BodyChannels(ids) == IF Len(ids) > 0 THEN ChannelArg(FALSE, ids) ELSE ChannelArg(TRUE, <<>>)

\* The channels the request names: all of them for 'sync all', the
\* selected ones otherwise.
Selections(d) ==
    IF d.version = "handleSyncAll" THEN { d.channels } ELSE { <<>>, d.channels }

\* setSummary({ total: 0, created: 0, updated: 0, failed: 1, error })
ErrorSummary == [kind |-> "error", total |-> 0, failed |-> 1]

\* setSummary(data.summary)
DataSummary(q) == [kind |-> "data", total |-> q.total, failed |-> q.failed]

\* The summaries POST /api/sync/start sends in its JSON bodies.
SentSummaries == { <<0, 0>>, <<1, 0>>, <<1, 1>> }

\* fetchChannels settles: setChannels on success, and setChannelsLoading(false)
\* in its finally.
ChannelsSettled(ch) ==
    /\ dash.version \in VERSIONS
    /\ dash.channelsLoading
    /\ dash' = [dash EXCEPT !.channels = ch, !.channelsLoading = FALSE]
    /\ UNCHANGED << run, pure, primaryLocationId, lookup, calls >>

\* Mutant: the handler does not set isLoading before it sends the request.
ClickNoLoading(r) ==
    /\ dash.version \in VERSIONS
    /\ ~ButtonDisabled(dash)
    /\ dash.requests[r].pc = "none"
    /\ \A q \in REQUESTS : q < r => dash.requests[q].pc # "none"
    /\ \E sel \in Selections(dash) :
          dash' = [dash EXCEPT !.summary = NullSummary,
                               !.requests[r] = [@ EXCEPT !.pc = "fetching",
                                                         !.channelIds = BodyChannels(sel)]]
    /\ UNCHANGED << run, pure, primaryLocationId, lookup, calls >>

\* A click on the enabled sync button: setIsLoading(true), setSummary(null)
\* and the POST is sent.
Click(r) ==
    /\ dash.version \in VERSIONS
    /\ ~ButtonDisabled(dash)
    /\ dash.requests[r].pc = "none"
    /\ \A q \in REQUESTS : q < r => dash.requests[q].pc # "none"
    /\ \E sel \in Selections(dash) :
          dash' = [dash EXCEPT !.isLoading = TRUE,
                               !.summary = NullSummary,
                               !.requests[r] = [@ EXCEPT !.pc = "fetching",
                                                         !.channelIds = BodyChannels(sel)]]
    /\ UNCHANGED << run, pure, primaryLocationId, lookup, calls >>

\* fetch resolves with a response: the handler goes on to response.json().
\* The body is the endpoint's JSON, or is not JSON (an error page of a proxy).
FetchResolves(r, json, sent) ==
    /\ dash.requests[r].pc = "fetching"
    /\ dash' = [dash EXCEPT !.requests[r] =
                    [@ EXCEPT !.pc = "parsing", !.json = json,
                              !.total = IF json THEN sent[1] ELSE 0,
                              !.failed = IF json THEN sent[2] ELSE 0]]
    /\ UNCHANGED << run, pure, primaryLocationId, lookup, calls >>

\* fetch rejects (the network failed): catch sets the error summary, finally
\* setIsLoading(false).
FetchRejects(r) ==
    /\ dash.requests[r].pc = "fetching"
    /\ dash' = [dash EXCEPT !.requests[r] = [@ EXCEPT !.pc = "done"],
                            !.summary = ErrorSummary,
                            !.isLoading = FALSE]
    /\ UNCHANGED << run, pure, primaryLocationId, lookup, calls >>

\* response.json() resolves: setSummary(data.summary), finally
\* setIsLoading(false).
JsonResolves(r) ==
    /\ dash.requests[r].pc = "parsing"
    /\ dash.requests[r].json
    /\ dash' = [dash EXCEPT !.requests[r] = [@ EXCEPT !.pc = "done"],
                            !.summary = DataSummary(dash.requests[r]),
                            !.isLoading = FALSE]
    /\ UNCHANGED << run, pure, primaryLocationId, lookup, calls >>

\* response.json() rejects: catch sets the error summary, finally
\* setIsLoading(false).
JsonRejects(r) ==
    /\ dash.requests[r].pc = "parsing"
    /\ ~dash.requests[r].json
    /\ dash' = [dash EXCEPT !.requests[r] = [@ EXCEPT !.pc = "done"],
                            !.summary = ErrorSummary,
                            !.isLoading = FALSE]
    /\ UNCHANGED << run, pure, primaryLocationId, lookup, calls >>

DashInit ==
    /\ Quiet
    /\ NoNormalizer
    /\ NoLookups
    /\ NoCalls
    /\ dash \in { Mounted(v) : v \in VERSIONS }

\* The promises of the dashboard settle.
DashSettle ==
    \/ \E ch \in ChannelAnswers : ChannelsSettled(ch)
    \/ \E r \in REQUESTS : \E json \in BOOLEAN : \E sent \in SentSummaries :
          FetchResolves(r, json, sent)
    \/ \E r \in REQUESTS : FetchRejects(r)
    \/ \E r \in REQUESTS : JsonResolves(r)
    \/ \E r \in REQUESTS : JsonRejects(r)

DashNext ==
    \/ \E r \in REQUESTS : Click(r)
    \/ DashSettle

\* Every request the browser has sent settles, and so does the reading of
\* a response's body; nobody has to click.
DashSpec == DashInit /\ [][DashNext]_vars /\ WF_vars(DashSettle)

\* ------------------------------------------------------------------ claims

\* The fetched records that have a non-empty SKU.
SkuCount == Len(FilterSku(inflowProducts))

Processed(sum) == sum.created + sum.updated + sum.failed

\* The 0-based number of the batch that position k falls in.
BatchOf(k) == (k - 1) \div BATCH_SIZE

InFlight == { k \in DOMAIN item : item[k].pc \notin {"pending", "settled"} }

Reduced == { k \in DOMAIN item : item[k].reduced }

WithStatus(S, st) == Cardinality({ k \in S : item[k].status = st })

\* The publish calls of the items of S that returned true.
RECURSIVE SumPubTrue(_)
SumPubTrue(S) ==
    IF S = {} THEN 0
    ELSE LET k == CHOOSE x \in S : TRUE IN item[k].pubTrue + SumPubTrue(S \ {k})

\* The publish calls item k has issued to the channel ids 1 .. c.
RECURSIVE PublishCalls(_, _)
PublishCalls(k, c) == IF c = 0 THEN 0 ELSE item[k].nPublish[c] + PublishCalls(k, c - 1)

\* The calls issued to the sink by item k, besides Locate.
SinkWrites(k) ==
    item[k].nCreate + item[k].nUpdate + item[k].nStock + item[k].nVariant
    + item[k].nProduct + PublishCalls(k, MaxChannels)

\* No other element of productsToSync has the SKU of element k.
UniqueSku(k) == \A j \in DOMAIN item : j # k => productsToSync[j] # productsToSync[k]

\* C1: every returned summary satisfies created + updated + failed == the
\* number of fetched source records that have a non-empty SKU.
C1_ProcessedEqualsSkuCount ==
    result.returned => Processed(result.summary) = SkuCount

\* C1, on the runs in which no debug lookup throws: the sum is the number of
\* SKU-bearing records when the run completes, and 0 when the fetch failed.
C1_ProcessedUnlessThrown ==
    (result.returned /\ exit # "throw") => Processed(result.summary) = SkuCount

\* C2: an item whose Locate call raises ends failed without a write to the
\* sink; the step in which it raises changes nothing of the sink, of the
\* summary, of the run or of another item; an item with a SKU of its own
\* that caught no exception ends updated when the sink held its SKU at the
\* start of the run and created otherwise, whatever happened to the other
\* items; and a run that completes has settled and counted every item.
C2_FaultIsolation ==
    /\ [](\A k \in DOMAIN item :
            /\ item[k].found = "raised" =>
                 item[k].pc = "settled" /\ item[k].status = "failed" /\ SinkWrites(k) = 0
            /\ (item[k].pc = "settled" /\ item[k].raised = "" /\ UniqueSku(k)) =>
                 item[k].status =
                     IF sink0[productsToSync[k]].n > 0 THEN "updated" ELSE "created")
    /\ []((result.returned /\ exit = "normal") =>
            /\ \A k \in DOMAIN item : item[k].pc = "settled" /\ item[k].reduced
            /\ result.summary.failed = WithStatus(DOMAIN item, "failed"))
    /\ [][\A k \in DOMAIN item :
            (item[k].found # "raised" /\ k \in DOMAIN item' /\ item'[k].found = "raised") =>
                /\ sink' = sink
                /\ summary' = summary
                /\ phase' = phase
                /\ result' = result
                /\ \A j \in DOMAIN item : j # k => (j \in DOMAIN item' /\ item'[j] = item[j])]_vars

\* C2 witness: a run has completed in which the Locate call of one item
\* raised and another item of the same batch was created or updated.
C2_Witness ==
    /\ result.returned /\ exit = "normal"
    /\ \E k, j \in DOMAIN item :
         /\ k # j /\ BatchOf(k) = BatchOf(j)
         /\ item[k].found = "raised"
         /\ item[j].status \in {"created", "updated"}

C4_BatchBarrier ==
    \A k \in DOMAIN item :
        item[k].pc # "pending" =>
            \A j \in DOMAIN item :
                BatchOf(j) < BatchOf(k) => (item[j].pc = "settled" /\ item[j].reduced)

\* C4 witness: an item of the second batch is in flight, and so were two
\* items of the first batch at once.
C4_Witness ==
    /\ \E k \in DOMAIN item : BatchOf(k) = 1 /\ item[k].pc = "locating"
    /\ \E j \in DOMAIN item : BatchOf(j) = 0 /\ item[j].status = "failed"

\* C5: the batches launched are consecutive ranges of productsToSync in
\* source order, none empty, each of exactly BATCH_SIZE positions except
\* the last of the list; the items that have started are those of the
\* launched ranges; a completed run has launched every position; and no
\* more than BATCH_SIZE pipelines are in flight.
C5_BoundedBatches ==
    /\ \A b \in DOMAIN launched :
         /\ launched[b][1] = (IF b = 1 THEN 1 ELSE launched[b - 1][2] + 1)
         /\ launched[b][1] <= launched[b][2]
         /\ launched[b][2] <= N
         /\ launched[b][2] - launched[b][1] + 1 <= BATCH_SIZE
         /\ launched[b][2] - launched[b][1] + 1 < BATCH_SIZE => launched[b][2] = N
    /\ \A k \in DOMAIN item :
         item[k].pc # "pending" <=>
             \E b \in DOMAIN launched : launched[b][1] <= k /\ k <= launched[b][2]
    /\ (result.returned /\ exit = "normal" /\ N > 0) => launched[Len(launched)][2] = N
    /\ Cardinality(InFlight) <= BATCH_SIZE

\* C5 witness: a second, smaller batch has been launched after a full one
\* that had BATCH_SIZE pipelines in flight.
C5_Witness ==
    /\ Len(launched) = 2
    /\ launched[1] = <<1, BATCH_SIZE>>
    /\ launched[2][2] - launched[2][1] + 1 < BATCH_SIZE
    /\ Cardinality(InFlight) >= 1

\* C5 witness of the cap: BATCH_SIZE pipelines are in flight at once.
C5_FullBatchInFlight == Cardinality(InFlight) = BATCH_SIZE

\* C6: every reduced item carries exactly one of the three statuses, each
\* counter is the number of reduced items with its status, and published
\* is the number of publish calls of the reduced items that returned true.
C6_OneCounterPerItem ==
    /\ \A k \in Reduced : item[k].status \in {"created", "updated", "failed"}
    /\ summary.created = WithStatus(Reduced, "created")
    /\ summary.updated = WithStatus(Reduced, "updated")
    /\ summary.failed = WithStatus(Reduced, "failed")
    /\ Processed(summary) = Cardinality(Reduced)
    /\ summary.published = SumPubTrue(Reduced)

\* C6 witness: a reduced item made two publish calls of which one returned
\* true, beside a reduced item that failed.
C6_Witness ==
    /\ \E k \in Reduced : item[k].chan = 2 /\ item[k].pubTrue = 1
    /\ summary.published = 1

\* C7: the returned summary.total is the number of records the source
\* handed over, SKU-less ones included.
C7_TotalCountsAllFetched == result.returned => result.summary.total = fetched

\* C7 witness: a completed run whose source returned a record without SKU
\* beside one with a SKU.
C7_Witness ==
    /\ result.returned /\ exit = "normal"
    /\ fetched > Len(productsToSync)
    /\ Len(productsToSync) > 0

\* C8 as stated: the total of a completed run is the number of SKU-bearing
\* records.
C8_TotalIsSkuBearingCount ==
    (result.returned /\ exit = "normal") => result.summary.total = Len(productsToSync)

\* C8 amended: summary.total changes only in the step that receives the
\* fetch (or when a new run creates its summary), and from then on it is
\* the number of all fetched records, SKU-less ones included.
C8_TotalSetOnce ==
    /\ [][summary'.total # summary.total => phase \in {"idle", "fetching"}]_vars
    /\ [](phase \in {"batch", "pause"} =>
            (summary.total = fetched /\ fetched = Len(inflowProducts)))

\* C8 witness: batches are running over fewer records than the total counts.
C8_Witness ==
    /\ phase = "batch"
    /\ summary.total > Len(productsToSync)
    /\ \E k \in DOMAIN item : item[k].pc = "settled"

\* The position of a pipeline state in Pending -> Locating -> Creating |
\* Updating (stock, variant, product) -> Publishing -> settled.
Rank(it) ==
    CASE it.pc = "pending" -> 0
      [] it.pc = "locating" -> 1
      [] it.pc \in {"creating", "stock"} -> 2
      [] it.pc = "variant" -> 3
      [] it.pc = "product" -> 4
      [] it.pc = "publishing" -> 5
      [] it.pc = "settled" -> 6

\* How often channelIds names channel c.
Mult(c) == Cardinality({ j \in DOMAIN channelIds.ids : channelIds.ids[j] = c })

\* C9 as stated: each item issues at most one Locate, one create, one
\* variant-update call, and at most one publish call per channel id.
C9_AtMostOneCallEach ==
    \A k \in DOMAIN item :
        /\ item[k].nLocate <= 1 /\ item[k].nCreate <= 1 /\ item[k].nVariant <= 1
        /\ \A c \in CHANNELS : item[k].nPublish[c] <= 1

\* C9 amended: an item only moves forward through the pipeline states,
\* never back and never twice into one (the publish loop advancing one
\* entry of channelIds at a time), and it issues at most one Locate, one
\* create, one variant-update call and one publish call per entry of
\* channelIds: per channel id, as many as channelIds names that id.
C9_ForwardOnly ==
    /\ [](\A k \in DOMAIN item :
            /\ item[k].nLocate <= 1 /\ item[k].nCreate <= 1 /\ item[k].nVariant <= 1
            /\ item[k].nUpdate <= 1 /\ item[k].nStock <= 1 /\ item[k].nProduct <= 1
            /\ \A c \in CHANNELS : item[k].nPublish[c] <= Mult(c))
    /\ [][\A k \in DOMAIN item :
            k \in DOMAIN item' =>
                \/ item'[k] = item[k]
                \/ item'[k] = [item[k] EXCEPT !.reduced = TRUE]
                \/ Rank(item'[k]) > Rank(item[k])
                \/ /\ item[k].pc = "publishing" /\ item'[k].pc = "publishing"
                   /\ item'[k].chan = item[k].chan + 1]_vars

\* C9 witness: an item has settled after two publish calls to one channel id.
C9_Witness ==
    \E k \in DOMAIN item :
        /\ item[k].pc = "settled" /\ item[k].status = "updated"
        /\ item[k].nPublish[1] = 2

\* C10: an item has issued a create call exactly when its Locate call
\* returned null, and has called the update exactly when Locate returned a
\* record; none did both; and an item ends failed only by an exception it
\* caught, so that an item whose Locate returned null ends created unless
\* its create call raised.
C10_CreateUpdateFork ==
    \A k \in DOMAIN item :
        /\ item[k].nCreate >= 1 <=> item[k].found = "null"
        /\ item[k].nUpdate >= 1 <=> item[k].found = "record"
        /\ ~(item[k].nCreate >= 1 /\ item[k].nUpdate >= 1)
        /\ item[k].status = "failed" => item[k].raised # ""
        /\ (item[k].pc = "settled" /\ item[k].found = "null" /\ item[k].raised = "") =>
               item[k].status = "created"
        /\ (item[k].pc = "settled" /\ item[k].found = "record" /\ item[k].raised = "") =>
               item[k].status = "updated"

\* C10 witness: in one run an item was created after Locate returned null
\* and another was updated after Locate returned a record.
C10_Witness ==
    \E k, j \in DOMAIN item :
        /\ item[k].found = "null" /\ item[k].status = "created"
        /\ item[j].found = "record" /\ item[j].status = "updated"

\* The items of the batch at offset off whose callback caught an exception.
BatchRaised(off) == { k \in DOMAIN item : InBatch(k, off) /\ item[k].raised # "" }

\* How often the sequence s holds the entry e.
Occurrences(s, e) == Cardinality({ p \in DOMAIN s : s[p] = e })

\* The run's log entries that name a failed item.
FailedLines == { p \in DOMAIN logs : logs[p].kind = "failed" }

\* C11: an item whose Locate, create, variant-update or stock-level call
\* raised ends failed; the result loop counts it once in failed and logs,
\* once per such item, a line with its SKU and the error message; the run
\* is never left from a batch or a pause but by the normal return, with
\* every item of every batch settled and counted.
C11_ItemFailureContained ==
    /\ [](\A k \in DOMAIN item :
            (item[k].pc = "settled"
             /\ item[k].raised \in {"locate", "create", "variant", "stock"}) =>
                item[k].status = "failed")
    /\ [](\A k \in Reduced :
            item[k].raised # "" =>
                /\ \E p \in FailedLines :
                      logs[p] = Entry("failed", productsToSync[k], 0, item[k].raised)
                /\ Cardinality({ p \in FailedLines : logs[p].sku = productsToSync[k] })
                   = Cardinality({ j \in Reduced : item[j].raised # ""
                                                   /\ productsToSync[j] = productsToSync[k] }))
    /\ [][(phase = "batch" /\ phase' # "batch") =>
            /\ summary'.failed = summary.failed + Cardinality(BatchRaised(i))
            /\ Len(logs') >= Len(logs) + Cardinality(BatchRaised(i))]_vars
    /\ [][(phase \in {"batch", "pause"} /\ phase' = "idle") =>
            /\ exit' = "normal"
            /\ \A k \in DOMAIN item' : item'[k].pc = "settled" /\ item'[k].reduced]_vars
    /\ [][(phase = "batch" /\ phase' = "pause") => i + BATCH_SIZE < N]_vars

\* C11 witness: the create call of an item of the first batch raised, the
\* item was counted and logged, and the run went on to create an item of
\* the second batch and returned.
C11_Witness ==
    /\ result.returned /\ exit = "normal"
    /\ result.summary.failed = 1
    /\ \E k, j \in DOMAIN item :
         /\ BatchOf(k) = 0 /\ item[k].raised = "create"
         /\ BatchOf(j) = 1 /\ item[j].status = "created"
         /\ Occurrences(logs, Entry("failed", productsToSync[k], 0, "create")) = 1

\* C12: no item ends failed by a publish call; an answer of false leaves
\* the pipeline in the publish loop with the call to the next entry of
\* channelIds issued, or, after the last entry, returns created or updated
\* as the writes decided; and an item that got a false answer settles
\* with every entry of channelIds called and its outcome not failed.
C12_PublishBestEffort ==
    /\ [](\A k \in DOMAIN item :
            /\ item[k].status = "failed" =>
                   item[k].raised \in {"locate", "stock", "variant", "create"}
            /\ (item[k].pc = "settled" /\ item[k].falseAt > 0) =>
                   /\ item[k].status = Outcome(item[k])
                   /\ item[k].chan = Len(channelIds.ids)
                   /\ \A c \in CHANNELS : item[k].nPublish[c] = Mult(c)
                   /\ item[k].publishedCount = item[k].pubTrue
                   /\ item[k].pubTrue < Len(channelIds.ids))
    /\ [][\A k \in DOMAIN item :
            ( /\ item[k].pc = "publishing"
              /\ k \in DOMAIN item' /\ item'[k] # item[k]
              /\ item'[k].pubTrue = item[k].pubTrue ) =>
                IF item[k].chan < Len(channelIds.ids)
                THEN /\ item'[k].pc = "publishing"
                     /\ item'[k].chan = item[k].chan + 1
                     /\ item'[k].status = ""
                ELSE /\ item'[k].pc = "settled"
                     /\ item'[k].status = Outcome(item[k])]_vars

\* C12 witness: the first publish call of an item answered false, the
\* second answered true, and the item was created.
C12_Witness ==
    \E k \in DOMAIN item :
        /\ item[k].pc = "settled" /\ item[k].status = "created"
        /\ item[k].falseAt = 1 /\ item[k].chan = 2 /\ item[k].pubTrue = 1

\* C13: an item whose updateShopifyProduct call failed never ends failed
\* for it: it settles as updated, with a publish call made to every entry
\* of channelIds when there are any; and whatever updateShopifyProduct
\* answers, the step that receives the answer issues the first publish
\* call, or returns updated when no channel was asked for.
C13_ProductUpdateNonFatal ==
    /\ [](\A k \in DOMAIN item :
            /\ item[k].raised # "product"
            /\ (item[k].productFailed /\ item[k].pc = "settled") =>
                   /\ item[k].status = "updated"
                   /\ item[k].chan = Len(channelIds.ids)
                   /\ \A c \in CHANNELS : item[k].nPublish[c] = Mult(c))
    /\ [][\A k \in DOMAIN item :
            ( /\ item[k].pc = "product"
              /\ k \in DOMAIN item' /\ item'[k] # item[k] ) =>
                IF WantsPublish
                THEN /\ item'[k].pc = "publishing" /\ item'[k].chan = 1
                     /\ item'[k].nPublish[channelIds.ids[1]] = 1
                ELSE /\ item'[k].pc = "settled" /\ item'[k].status = "updated"]_vars

\* C13 witness: the product update of an item failed, both channels were
\* published to afterwards, and the item was counted as updated.
C13_Witness ==
    \E k \in Reduced :
        /\ item[k].productFailed /\ item[k].status = "updated"
        /\ item[k].chan = 2 /\ item[k].pubTrue = 2
        /\ summary.updated >= 1 /\ summary.failed = 0

\* C14: when channelIds is null or an empty list, no item issues a publish
\* call or enters the publish loop, and published is 0 in the summary, as
\* it runs and as it is returned.
C14_NoChannelsNoPublish ==
    (channelIds.isNull \/ Len(channelIds.ids) = 0) =>
        /\ \A k \in DOMAIN item :
              /\ PublishCalls(k, MaxChannels) = 0
              /\ item[k].chan = 0 /\ item[k].pc # "publishing"
              /\ item[k].publishedCount = 0
        /\ summary.published = 0
        /\ result.returned => result.summary.published = 0

\* C14 witness: a run called with an empty list of channels has created
\* one item and updated another, and returned.
C14_Witness ==
    /\ ~channelIds.isNull /\ Len(channelIds.ids) = 0
    /\ result.returned /\ exit = "normal"
    /\ result.summary.created + result.summary.updated >= 1
    /\ \E k \in DOMAIN item : item[k].status = "updated" /\ item[k].prod

\* The last n entries of the run's logs.
LastLogs(n) == SubSeq(logs, Len(logs) - n + 1, Len(logs))

\* C15: a run that returns by the normal completion path has counted every
\* item, ends its logs with the final summary block of the summary it
\* returns, and returns success exactly when failed is 0; and a run in
\* which an item failed returns by that path, with success false.
C15_FinalSummaryAndSuccess ==
    /\ (result.returned /\ exit = "normal") =>
          /\ \A k \in DOMAIN item : item[k].pc = "settled" /\ item[k].reduced
          /\ result.summary = summary
          /\ result.success = (result.summary.failed = 0)
          /\ Len(logs) >= Len(SummaryLogs(summary))
          /\ LastLogs(Len(SummaryLogs(summary))) = SummaryLogs(result.summary)
    /\ (result.returned /\ \E k \in DOMAIN item : item[k].status = "failed") =>
          /\ exit = "normal"
          /\ ~result.success
          /\ result.summary.failed = WithStatus(DOMAIN item, "failed")

\* C15 witness: a run of two batches has returned success false with one
\* failed item and the others created, its logs ending with the block.
C15_Witness ==
    /\ result.returned /\ exit = "normal" /\ ~result.success
    /\ Len(launched) = 2
    /\ result.summary.failed = 1
    /\ result.summary.created = N - 1
    /\ logs[Len(logs)] = Entry("Failed", 0, 1, "")

\* C16: when every call settles, no run stays in progress for ever: time
\* and again no run is in progress, and then the last run started has
\* returned, so that a started run eventually returns; a run
\* ends only by returning { success, logs, summary } from one of its
\* return statements, never by a rejection; and once batches have started
\* it ends only by the normal return, with every launched pipeline settled
\* and every batch launched.
C16_RunTerminates ==
    /\ []<>(phase = "idle")
    /\ []((phase = "idle" /\ exit # "none") => result.returned)
    /\ [][(phase # "idle" /\ phase' = "idle") =>
            /\ result'.returned
            /\ result'.success \in BOOLEAN
            /\ result'.summary = summary'
            /\ exit' \in {"fetch", "empty", "throw", "normal"}
            /\ \A k \in DOMAIN item' : item'[k].pc = "settled"
            /\ item # <<>> => exit' = "normal"]_vars
    /\ [][(phase = "idle" /\ phase' = "idle" /\ runsLeft' # runsLeft) =>
            (result'.returned /\ exit' = "config")]_vars

\* C16 witness: the last run of a behaviour has returned after two batches
\* in which one call raised.
C16_Witness ==
    /\ phase = "idle" /\ result.returned /\ runsLeft = 0 /\ ~prev.returned
    /\ Len(launched) = 2 /\ faults = 1
    /\ \A k \in DOMAIN item : item[k].pc = "settled"

\* C17 as stated: a returned result is error-flavoured (success false, the
\* logs ending with 'Sync failed') only after a configuration or a fetch
\* failure, and then with an all-zero summary; and with a valid
\* configuration and a fetch that succeeded the run returns by a
\* completion path with every SKU-bearing record counted, whatever the
\* records look like.
C17_TwoBlastRadii ==
    result.returned =>
        /\ (~result.success /\ logs[Len(logs)].kind = "syncFailed") =>
               (exit \in {"config", "fetch"} /\ result.summary = ZeroSummary)
        /\ (configOk /\ exit # "fetch") =>
               /\ exit \in {"normal", "empty"}
               /\ Processed(result.summary) = Len(FilterSku(source))

\* C18: with a required credential missing, a call of startSync issues no
\* fetch and no sink call, leaves the sink as it was, and returns success
\* false with an all-zero summary and the one 'Sync failed' entry.
C18_ConfigAbortsBeforeIO ==
    (~cred.inflowToken \/ ~cred.accessToken \/ ~cred.storeDomain) =>
        /\ phase = "idle"
        /\ nFetch = 0 /\ fetched = 0
        /\ item = <<>> /\ launched = <<>>
        /\ sink = sink0
        /\ result.returned =>
              /\ exit = "config"
              /\ ~result.success
              /\ result.summary = ZeroSummary
              /\ logs = << SyncFailed(ConfigError(cred)) >>

\* C18 witness: a call has returned with the source token set and the shop
\* domain missing, the source holding a record.
C18_Witness ==
    /\ result.returned /\ exit = "config"
    /\ cred.inflowToken /\ cred.accessToken /\ ~cred.storeDomain
    /\ Len(source) > 0

\* C19: a run that returns for a failed fetch has called the source once,
\* has issued no call to the sink and left it as it was, and returns
\* success false with an all-zero summary; no run calls the source twice.
C19_FetchFailureAborts ==
    /\ nFetch <= 1
    /\ (result.returned /\ exit = "fetch") =>
          /\ nFetch = 1
          /\ item = <<>> /\ launched = <<>>
          /\ sink = sink0
          /\ ~result.success
          /\ result.summary = ZeroSummary
          /\ logs[Len(logs)] = SyncFailed("Failed to fetch inFlow products")

\* C19 witness: a run has returned for a failed fetch while the source
\* holds a record with a SKU that the sink lacks.
C19_Witness ==
    /\ result.returned /\ exit = "fetch" /\ nFetch = 1
    /\ \E p \in DOMAIN source : source[p].sku # 0 /\ sink[source[p].sku].n = 0

\* The fetched record that carries SKU s.
SourceRec(s) ==
    CHOOSE r \in { inflowProducts[p] : p \in DOMAIN inflowProducts } : r.hasAttr /\ r.sku = s

\* No two records to sync have the same SKU.
DistinctSkus ==
    \A p, q \in DOMAIN productsToSync : p # q => productsToSync[p] # productsToSync[q]

FloorTenths(q) == IF q >= 0 THEN q \div 10 ELSE -((-q + 9) \div 10)

\* C21: the stock sent to the sink is the floor of the sum of the
\* inventory-line quantities whenever the record has inventory lines, the
\* floor of the flat total-on-hand only when it has none, and 0 when
\* neither is there or parses.
C21_StockFromLinesFirst ==
    payload.built =>
        payload.inventory_quantity =
            IF raw.linesIsArray /\ Len(raw.inventoryLines) > 0
            THEN FloorTenths(SumLines(raw.inventoryLines))
            ELSE IF raw.totalQuantityOnHand.kind = "number"
                 THEN FloorTenths(raw.totalQuantityOnHand.v)
                 ELSE 0

\* What the code does instead: the flat field also stands in for lines
\* that add up to 0.
C21_FlatWhenLinesAddUpToZero ==
    payload.built =>
        payload.inventory_quantity =
            IF raw.linesIsArray /\ SumLines(raw.inventoryLines) # 0
            THEN FloorTenths(SumLines(raw.inventoryLines))
            ELSE IF raw.totalQuantityOnHand.kind = "number"
                 THEN FloorTenths(raw.totalQuantityOnHand.v)
                 ELSE 0

\* Lines of 3.7 and 2 make a stock of 5, next to a flat field of 7.9.
C21_Witness ==
    /\ payload.built
    /\ raw.linesIsArray
    /\ raw.inventoryLines = << Line(Num(37), Undefined), Line(Undefined, Num(20)) >>
    /\ raw.totalQuantityOnHand = Num(79)
    /\ payload.inventory_quantity = 5

\* -------------------------------------------------------------------- C22

\* The fields of an object that are set, by their place in the priority order.
Places(o) == { p \in 1 .. Len(IMAGE_FIELDS) : IMAGE_FIELDS[p] \in o.fields }

\* C22: the image URL of a record is the field of its first image that
\* comes first in the order full-resolution, large, medium-uncropped,
\* medium, small, thumbnail; no image after the first is used; and the
\* create and update payloads carry at most one image.
C22_FirstImageByPriority ==
    payload.built =>
        /\ Len(payload.images) <= 1
        /\ \A j \in DOMAIN payload.images :
               payload.images[j].src.from = "images" => payload.images[j].src.pos = 0
        /\ (Len(raw.images) > 0 /\ Places(raw.images[1]) # {}) =>
               /\ Len(payload.images) = 1
               /\ payload.images[1].src.from = "images"
               /\ \E p \in Places(raw.images[1]) :
                      /\ \A q \in Places(raw.images[1]) : p <= q
                      /\ payload.images[1].src.field = IMAGE_FIELDS[p]
        /\ (Len(raw.images) = 0 /\ raw.hasDefaultImage /\ Places(raw.defaultImage) # {}) =>
               /\ Len(payload.images) = 1
               /\ payload.images[1].src.from = "defaultImage"
               /\ \E p \in Places(raw.defaultImage) :
                      /\ \A q \in Places(raw.defaultImage) : p <= q
                      /\ payload.images[1].src.field = IMAGE_FIELDS[p]

\* Two images, the first with a medium-uncropped, a small and a thumbnail
\* URL, the second with all six: the payload carries the medium-uncropped
\* URL of the first and nothing else.
C22_Witness ==
    /\ payload.built
    /\ Len(raw.images) = 2
    /\ raw.images[1].fields = { "mediumUncroppedUrl", "smallUrl", "thumbUrl" }
    /\ "originalUrl" \in raw.images[2].fields
    /\ payload.images = << [src |-> Url("images", 0, "mediumUncroppedUrl", <<>>)] >>

\* -------------------------------------------------------------------- C23

\* C23: an image URL that carries resize query parameters (width, height,
\* w, h) reaches the payload without any of them.
C23_ResizeParamsStripped ==
    payload.built =>
        \A j \in DOMAIN payload.images :
            \A q \in DOMAIN payload.images[j].src.query :
                payload.images[j].src.query[q] \notin ResizeParams

\* What the code does instead: the URL reaches the payload as it was read.
C23_UrlVerbatim ==
    payload.built =>
        \A j \in DOMAIN payload.images :
            /\ payload.images[j].src = product.primaryImageUrl
            /\ Len(raw.images) > 0 /\ payload.images[j].src.from = "images" =>
                   payload.images[j].src.query = raw.images[1].query

\* -------------------------------------------------------------------- C24

\* The positions of the run's log entries of one kind.
LinesOf(kind) == { p \in DOMAIN logs : logs[p].kind = kind }

\* The .filter has run: the run is in its batch loop, or has returned by
\* the normal return after a fetch that gave records.
Filtered == phase \in { "batch", "pause" } \/ (phase = "idle" /\ exit = "normal")

\* The records the filter dropped.
Dropped == IF Filtered THEN Len(inflowProducts) - Len(productsToSync) ELSE 0

\* C24: records without a SKU are dropped before the batches and no
\* pipeline, so no Locate, create or update call, exists for them; the log
\* holds one 'Skipping N products without SKU' entry, N the number of
\* dropped records, when N > 0, none when N = 0, and the entry comes
\* before the first batch entry.
C24_SkuFilterAndSkipEntry ==
    /\ Filtered =>
          /\ Len(item) = Len(productsToSync)
          /\ Len(productsToSync) = Cardinality({ p \in DOMAIN inflowProducts :
                                                    /\ inflowProducts[p].hasAttr
                                                    /\ inflowProducts[p].sku # 0 })
          /\ \A k \in DOMAIN productsToSync :
                 /\ productsToSync[k] # 0
                 /\ \E p \in DOMAIN inflowProducts :
                        inflowProducts[p].hasAttr /\ inflowProducts[p].sku = productsToSync[k]
    /\ ~Filtered => (item = <<>> /\ LinesOf("batch") = {})
    /\ Cardinality(LinesOf("skipping")) = (IF Dropped > 0 THEN 1 ELSE 0)
    /\ \A p \in LinesOf("skipping") :
           /\ logs[p].n = Dropped
           /\ \A q \in LinesOf("batch") : p < q

\* A record without a SKU in front of one with a SKU: one pipeline, one
\* skip entry counting 1, a batch entry after it.
C24_Witness ==
    /\ result.returned /\ exit = "normal"
    /\ Len(inflowProducts) = 2 /\ inflowProducts[1].sku = 0
    /\ Len(item) = 1 /\ item[1].nLocate = 1
    /\ \E p \in LinesOf("skipping") : logs[p].n = 1 /\ (p + 1) \in LinesOf("batch")

\* -------------------------------------------------------------------- C25

\* The number of channel ids the caller asked for.
Requested == IF channelIds.isNull THEN 0 ELSE Len(channelIds.ids)

\* C25: in every state, summary.published is at most (created + updated)
\* times the number of requested channel ids, and the failed items add
\* nothing to it.
C25_PublishedBound ==
    /\ summary.published <= (summary.created + summary.updated) * Requested
    /\ result.returned =>
           result.summary.published
               <= (result.summary.created + result.summary.updated) * Requested
    /\ \A k \in DOMAIN item : item[k].publishedCount <= Requested
    /\ \A k \in DOMAIN item : item[k].status = "failed" => item[k].publishedCount = 0
    /\ summary.published =
           SumPubTrue({ k \in Reduced : item[k].status \in { "created", "updated" } })

\* One item failed and one was published to the one requested channel:
\* published is 1, the bound.
C25_Witness ==
    /\ result.returned
    /\ Requested = 1
    /\ result.summary.failed = 1
    /\ result.summary.created + result.summary.updated = 1
    /\ result.summary.published = 1

\* -------------------------------------------------------------------- C26

\* Sequence a is the beginning of sequence b.
IsPrefix(a, b) == Len(a) <= Len(b) /\ \A p \in DOMAIN a : b[p] = a[p]

\* C26: the log of a run only grows: every step of a run leaves the
\* entries logged so far in place and in order and appends to them, the
\* step that returns included, on the normal and on the error paths; a
\* returned log is not touched again; and the log of a new run holds
\* nothing but what that run appended.
C26_LogAppendOnly ==
    [][ /\ runsLeft' = runsLeft => IsPrefix(logs, logs')
        /\ (runsLeft' = runsLeft /\ ~result.returned /\ result'.returned) =>
               /\ Len(logs') > Len(logs)
               /\ exit' \in { "fetch", "throw" } => logs'[Len(logs')].kind = "syncFailed"
               /\ exit' \in { "normal" } => logs'[Len(logs')].kind = "Failed"
        /\ (runsLeft' = runsLeft /\ result.returned) => logs' = logs
        /\ runsLeft' # runsLeft =>
               logs'[1].kind \in { "start", "syncFailed" }
      ]_vars

\* A run that left by the outer catch after the fetch: its log begins with
\* the entries logged before and ends with the failure.
C26_Witness ==
    /\ result.returned /\ exit = "throw"
    /\ Len(logs) >= 4
    /\ logs[1].kind = "start"
    /\ LinesOf("fetched") # {}
    /\ logs[Len(logs)].kind = "syncFailed"

\* -------------------------------------------------------------------- C27

\* C27: the summary and the log of a run are written by the run's own
\* control flow only: a step of an item pipeline writes neither, and
\* while a batch is out they are written by the result loop alone, once
\* every pipeline of the batch has settled.
C27_WritesAfterJoin ==
    [][ /\ (\E k \in InFlight : k \in DOMAIN item' /\ item'[k] # item[k]) =>
               (summary' = summary /\ logs' = logs)
        /\ (phase = "batch" /\ (summary' # summary \/ logs' # logs)) =>
               /\ InFlight = {}
               /\ \A k \in DOMAIN item :
                      (BatchFirst(i) <= k /\ k <= Min(i + BATCH_SIZE, N)) =>
                          (item[k].pc = "settled" /\ ~item[k].reduced /\ item'[k].reduced)
      ]_vars

\* One pipeline of a batch has returned its result while another is still
\* waiting for a call: nothing of the batch is counted or logged yet.
C27_Witness ==
    /\ phase = "batch"
    /\ \E j, k \in DOMAIN item :
           /\ BatchOf(j) = BatchOf(k)
           /\ item[j].pc = "settled" /\ item[j].status = "created" /\ ~item[j].reduced
           /\ k \in InFlight
    /\ Processed(summary) = 0
    /\ logs[Len(logs)].kind = "batch"

\* -------------------------------------------------------------------- C30

\* C30: on the update path the stock-level write is issued when, and only
\* when, the variant the search returned exposes an inventory-item id and
\* a location id; when one of them is missing there is no stock write, the
\* price/SKU write is issued all the same, and the item can end updated.
C30_StockWriteIffBothIds ==
    \A k \in DOMAIN item :
        LET s == productsToSync[k]
        IN  /\ item[k].found # "record" => item[k].nStock = 0
            /\ (item[k].found = "record" /\ UniqueSku(k)) =>
                   /\ item[k].nStock = (IF sink0[s].inv /\ sink0[s].loc THEN 1 ELSE 0)
                   /\ ~(sink0[s].inv /\ sink0[s].loc) =>
                          /\ item[k].nVariant = 1
                          /\ sink[s].stock = sink0[s].stock
                          /\ (item[k].pc = "settled" /\ item[k].raised = "") =>
                                 (item[k].status = "updated" /\ sink[s].price = item[k].price)

\* The variant exposes an inventory-item id and no location id: no stock
\* write, a price/SKU write, and the item ends updated.
C30_Witness ==
    \E k \in DOMAIN item :
        /\ sink0[productsToSync[k]].inv /\ ~sink0[productsToSync[k]].loc
        /\ item[k].found = "record"
        /\ item[k].nStock = 0 /\ item[k].nVariant = 1
        /\ item[k].status = "updated"

\* -------------------------------------------------------------------- C28

\* C28: the cache of the primary location id is populated once, whatever
\* the interleaving of the calls: the first lookup that succeeds sets it
\* and no later one changes it; a call made once it is set returns it
\* without a request; a lookup that fails leaves an unset cache unset.
C28_CachePopulatedOnce ==
    [][ /\ primaryLocationId # 0 => primaryLocationId' = primaryLocationId
        /\ \A c \in CALLERS :
               /\ (lookup[c].pc = "none" /\ lookup'[c].pc # "none" /\ primaryLocationId # 0) =>
                      /\ lookup'[c].pc = "returned"
                      /\ lookup'[c].ret = primaryLocationId
                      /\ ~lookup'[c].requested
               /\ (lookup[c].pc = "waiting" /\ lookup'[c].pc = "thrown") =>
                      primaryLocationId' = primaryLocationId
      ]_vars

\* What holds of the code: a call made once the cache is set returns it
\* without a request, a failed lookup leaves the cache as it is, and the
\* cache holds the answer of the last lookup that succeeded.
C28_LastAnswerCached ==
    [][ /\ \A c \in CALLERS :
               /\ (lookup[c].pc = "none" /\ lookup'[c].pc # "none" /\ primaryLocationId # 0) =>
                      /\ lookup'[c].pc = "returned"
                      /\ lookup'[c].ret = primaryLocationId
                      /\ ~lookup'[c].requested
               /\ (lookup[c].pc = "waiting" /\ lookup'[c].pc = "thrown") =>
                      primaryLocationId' = primaryLocationId
               /\ (lookup[c].pc = "waiting" /\ lookup'[c].pc = "returned") =>
                      primaryLocationId' = lookup'[c].ret
      ]_vars

\* Two calls were made before either was answered, and the second answer
\* replaced the cached id of the first.
C28_Witness ==
    \E c, d \in CALLERS :
        /\ c # d
        /\ lookup[c].pc = "returned" /\ lookup[c].requested
        /\ lookup[d].pc = "returned" /\ lookup[d].requested
        /\ lookup[c].ret # lookup[d].ret
        /\ primaryLocationId = lookup[d].ret

\* -------------------------------------------------------------------- C29

\* The items of call r the result loop has counted with status st.
PairCounted(r, st) ==
    Cardinality({ k \in DOMAIN calls[r].item :
                    calls[r].item[k].reduced /\ calls[r].item[k].status = st })

\* The log and the counters of call r hold what call r logged and counted.
PairOwn(r) ==
    /\ \A p \in DOMAIN calls[r].logs : calls[r].logs[p].by = r
    /\ calls[r].summary.created = PairCounted(r, "created")
    /\ calls[r].summary.updated = PairCounted(r, "updated")
    /\ calls[r].summary.failed = PairCounted(r, "failed")

\* C29: when two calls of startSync overlap, the log each returns holds
\* the entries that call appended and no other, and the summary of each
\* counts that call's items: its created + updated + failed is the number
\* of records with a SKU the call fetched.
C29_RunIsolation ==
    \A r \in CALLS :
        (calls[r].overlapped /\ calls[r].result.returned) =>
            /\ PairOwn(r)
            /\ calls[r].result.summary = calls[r].summary
            /\ Processed(calls[r].result.summary) = Len(FilterSku(calls[r].inflowProducts))

\* What holds of the code: the log and the counters of a call are its own
\* at every step, and the sum is the number of its records with a SKU
\* unless the call left by the outer catch after the fetch.
C29_IsolatedUnlessThrown ==
    \A r \in CALLS :
        /\ PairOwn(r)
        /\ (calls[r].result.returned /\ calls[r].exit # "throw") =>
               /\ calls[r].result.summary = calls[r].summary
               /\ Processed(calls[r].result.summary)
                      = Len(FilterSku(calls[r].inflowProducts))

\* Both calls ran while the other was in progress and returned, one having
\* created the product and the other having updated it.
C29_Witness ==
    /\ \A r \in CALLS : calls[r].overlapped /\ calls[r].result.returned
    /\ calls[1].result.summary.created = 1
    /\ calls[2].result.summary.updated = 1
    /\ Len(calls[1].logs) > 0 /\ Len(calls[2].logs) > 0

\* -------------------------------------------------------------------- C31

\* The number of batches of a list of n records.
Batches(n) == (n + BATCH_SIZE - 1) \div BATCH_SIZE

\* C31: the run pauses once after the reduction of each batch but the
\* last: a pause begins with the batch reduced and no call of the next
\* batch issued, the next batch is launched by the end of the pause and by
\* nothing else, and a run of B batches has paused B - 1 times.
C31_PauseBetweenBatches ==
    /\ [](/\ phase = "pause" =>
                \A k \in DOMAIN item :
                    IF k <= Min(i + BATCH_SIZE, N) THEN item[k].reduced
                    ELSE item[k].pc = "pending" /\ item[k].nLocate = 0
          /\ phase \in { "batch", "pause" } =>
                pauses = (i \div BATCH_SIZE) + (IF phase = "pause" THEN 1 ELSE 0)
          /\ (result.returned /\ exit = "normal" /\ N > 0) => pauses = Batches(N) - 1
          /\ (result.returned /\ (exit # "normal" \/ N = 0)) => pauses = 0)
    /\ [][ /\ (runsLeft' = runsLeft /\ pauses' # pauses) =>
                  /\ phase = "batch" /\ phase' = "pause" /\ pauses' = pauses + 1
                  /\ \A k \in DOMAIN item :
                         (i < k /\ k <= Min(i + BATCH_SIZE, N)) =>
                             (item[k].pc = "settled" /\ item'[k].reduced)
           /\ (runsLeft' = runsLeft /\ i' # i) =>
                  /\ phase = "pause" /\ phase' = "batch" /\ i' = i + BATCH_SIZE
                  /\ \E k \in DOMAIN item : item[k].nLocate = 0 /\ item'[k].nLocate = 1
           /\ phase = "pause" => phase' \in { "pause", "batch" }
         ]_vars

\* A run of two batches has returned after one pause.
C31_Witness ==
    /\ result.returned /\ exit = "normal"
    /\ N = BATCH_SIZE + 1
    /\ Len(launched) = 2
    /\ pauses = 1

\* -------------------------------------------------------------------- C32

\* The entries of channelIds up to position n that name channel c.
Named(c, n) == Cardinality({ j \in 1 .. n : channelIds.ids[j] = c })

\* C32 as stated: with a non-empty channelIds every created or updated
\* item issues exactly one publish call per requested channel id, and a
\* failed item none.
C32_OnePublishPerChannel ==
    WantsPublish =>
        \A k \in DOMAIN item :
            /\ (item[k].pc = "settled" /\ item[k].status \in { "created", "updated" }) =>
                   \A j \in DOMAIN channelIds.ids : item[k].nPublish[channelIds.ids[j]] = 1
            /\ item[k].status = "failed" => \A c \in CHANNELS : item[k].nPublish[c] = 0

\* C32 amended: with a non-empty channelIds every created item, and every
\* updated item whose variant exposes a product id, issues one publish call
\* per entry of channelIds, one at a time in the order of channelIds and
\* after its create or update writes have returned; an updated item whose
\* variant exposes no product id, and a failed item, issue none.
C32_OnePublishPerEntry ==
    \A k \in DOMAIN item :
        LET it == item[k]
            expected == IF /\ WantsPublish
                           /\ it.status \in { "created", "updated" }
                           /\ it.found = "record" => it.prod
                        THEN Len(channelIds.ids) ELSE 0
        IN  /\ \A c \in CHANNELS : it.nPublish[c] = Named(c, it.chan)
            /\ it.pc = "settled" => it.chan = expected
            /\ it.pc = "publishing" =>
                   (1 <= it.chan /\ it.chan <= Len(channelIds.ids)
                    /\ it.publishedCount <= it.chan - 1)
            /\ it.chan > 0 =>
                   /\ it.pc \in { "publishing", "settled" }
                   /\ it.raised = ""
                   /\ \/ it.found = "null" /\ it.nCreate = 1
                                         /\ sink[productsToSync[k]].n > 0
                      \/ it.found = "record" /\ it.nVariant = 1 /\ it.nProduct = 1

\* An item was updated whose variant exposes no product id: it is counted
\* as updated and has issued no publish call although a channel was asked.
C32_Witness ==
    /\ WantsPublish
    /\ \E k \in DOMAIN item :
           /\ item[k].pc = "settled" /\ item[k].status = "updated"
           /\ ~item[k].prod
           /\ item[k].chan = 0

\* -------------------------------------------------------------------- C33

\* The items of the run with SKU s that have issued a create call.
Creators(s) == { k \in DOMAIN item : productsToSync[k] = s /\ item[k].nCreate > 0 }

\* C33: within one run at most one create call is issued per SKU, also
\* when two records of the source carry the same SKU, and the run adds at
\* most one product per SKU to the sink.
C33_OneCreatePerSku ==
    \A s \in SKUS :
        /\ Cardinality(Creators(s)) <= 1
        /\ sink[s].n <= sink0[s].n + 1

\* What holds of the code: a SKU that one record carries is created at
\* most once, and no SKU is created once the sink was found to hold it.
C33_OneCreatePerRecord ==
    \A k \in DOMAIN item :
        /\ item[k].nCreate <= 1
        /\ UniqueSku(k) =>
               /\ Creators(productsToSync[k]) \subseteq { k }
               /\ sink[productsToSync[k]].n <= sink0[productsToSync[k]].n + 1
        /\ item[k].found = "record" => item[k].nCreate = 0

\* Two records with one SKU were both created in one run.
C33_Witness ==
    /\ result.returned
    /\ \E j, k \in DOMAIN item :
           /\ j # k /\ productsToSync[j] = productsToSync[k]
           /\ item[j].status = "created" /\ item[k].status = "created"
           /\ sink[productsToSync[k]].n = 2

\* -------------------------------------------------------------------- C34

\* C34: an updated item issues its stock-level write, then its variant
\* write, then its product write, then its publish calls, each after the
\* one before has returned; a stock-level or a variant write that fails
\* ends the pipeline with no later write and no publish call, the stock
\* already written staying written.
C34_UpdateWriteOrder ==
    /\ [](\A k \in DOMAIN item :
             LET it == item[k]
                 s == productsToSync[k]
             IN  it.found = "record" =>
                    /\ it.nVariant > 0 =>
                           /\ it.nStock = (IF it.inv THEN 1 ELSE 0)
                           /\ it.raised # "stock"
                           /\ (it.inv /\ UniqueSku(k)) => sink[s].stock = it.stock
                    /\ it.nProduct > 0 =>
                           (it.nVariant = 1 /\ it.raised = "" /\ it.prod)
                    /\ it.chan > 0 => it.nProduct = 1
                    /\ it.raised = "stock" =>
                           /\ it.status = "failed"
                           /\ it.nVariant = 0 /\ it.nProduct = 0 /\ it.chan = 0
                           /\ UniqueSku(k) => sink[s] = sink0[s]
                    /\ it.raised = "variant" =>
                           /\ it.status = "failed"
                           /\ it.nProduct = 0 /\ it.chan = 0
                           /\ UniqueSku(k) =>
                                  /\ sink[s].price = sink0[s].price
                                  /\ it.inv => sink[s].stock = it.stock)
    /\ [][\A k \in DOMAIN item :
              (k \in DOMAIN item' /\ item[k].found = "record") =>
                  /\ item'[k].nVariant > item[k].nVariant =>
                         item[k].pc = (IF item[k].inv THEN "stock" ELSE "locating")
                  /\ item'[k].nProduct > item[k].nProduct => item[k].pc = "variant"
                  /\ (item[k].chan = 0 /\ item'[k].chan > 0) => item[k].pc = "product"
         ]_vars

\* An item is reported failed for its variant write, and the stock of its
\* variant in the sink is already the stock of the source.
C34_Witness ==
    \E k \in DOMAIN item :
        /\ item[k].status = "failed" /\ item[k].raised = "variant"
        /\ item[k].nStock = 1
        /\ sink[productsToSync[k]].stock = item[k].stock
        /\ sink[productsToSync[k]].stock # sink0[productsToSync[k]].stock
        /\ sink[productsToSync[k]].price = sink0[productsToSync[k]].price

\* -------------------------------------------------------------------- C35

\* The results a summary has counted.
Counted3(s) == s.created + s.updated + s.failed

\* C35: n being the number of fetched records that have a SKU, the
\* reduction of batch k leaves created + updated + failed = min(5 * k, n);
\* in every state the sum is at most n and no counter is negative, and no
\* step of a run lowers a counter.
C35_CountersTrackBatches ==
    /\ [](/\ Counted3(summary) <= Len(FilterSku(source))
          /\ summary.created >= 0 /\ summary.updated >= 0 /\ summary.failed >= 0
          /\ result.returned =>
                (/\ Counted3(result.summary) <= Len(FilterSku(source))
                 /\ result.summary.created >= 0 /\ result.summary.updated >= 0
                 /\ result.summary.failed >= 0))
    /\ [][/\ phase # "idle" =>
                (/\ summary'.created >= summary.created
                 /\ summary'.updated >= summary.updated
                 /\ summary'.failed >= summary.failed)
          /\ (phase = "batch" /\ phase' # "batch") =>
                (Counted3(summary')
                   = Min(BATCH_SIZE * ((i \div BATCH_SIZE) + 1), Len(FilterSku(source))))
         ]_vars

\* The first of two batches has been reduced with a failed result in it.
C35_Witness ==
    /\ phase = "pause" /\ i = 0
    /\ Len(FilterSku(source)) > BATCH_SIZE
    /\ Counted3(summary) = BATCH_SIZE
    /\ summary.failed = 1

\* -------------------------------------------------------------------- C36

\* The entries of the result loop.
IsResultEntry(en) == en.kind \in {"created", "updated", "failed"}

\* The result entries and the batch entries before position p of the log.
ResultsBefore(p) == Cardinality({ q \in 1 .. p - 1 : IsResultEntry(logs[q]) })
BatchesBefore(p) == Cardinality({ q \in 1 .. p - 1 : logs[q].kind = "batch" })

\* C36: the j-th result entry of the log is the entry of the j-th record
\* that has a SKU, whatever the order in which the items settled; the
\* entry 'Processing batch k' comes after all the entries of the batches
\* before k and before the result entries of batch k.
C36_LogInSourceOrder ==
    \A p \in DOMAIN logs :
        /\ IsResultEntry(logs[p]) =>
              /\ ResultsBefore(p) + 1 \in DOMAIN item
              /\ logs[p].sku = productsToSync[ResultsBefore(p) + 1]
              /\ logs[p].kind = item[ResultsBefore(p) + 1].status
              /\ item[ResultsBefore(p) + 1].reduced
              /\ BatchesBefore(p) = (ResultsBefore(p) \div BATCH_SIZE) + 1
        /\ logs[p].kind = "batch" =>
              /\ ResultsBefore(p) = BATCH_SIZE * BatchesBefore(p)
              /\ ResultsBefore(p) < N
              /\ logs[p].n = Min(BATCH_SIZE, N - ResultsBefore(p))

\* A run of two batches has returned, its log holding both batch entries
\* and a result entry for every record, one of them a failure.
C36_Witness ==
    /\ result.returned /\ exit = "normal"
    /\ N > BATCH_SIZE
    /\ BatchesBefore(Len(logs) + 1) = 2
    /\ ResultsBefore(Len(logs) + 1) = N
    /\ \E k \in DOMAIN item : item[k].status = "failed"

\* -------------------------------------------------------------------- C37

\* C37: a run whose fetch returns no record returns success with every
\* counter of the summary at zero, makes no call to the sink, and its log
\* has neither a batch entry nor the final summary block.
C37_EmptyFetchReturnsAtOnce ==
    (result.returned /\ source = <<>> /\ exit \notin {"config", "fetch"}) =>
        /\ result.success
        /\ result.summary = ZeroSummary
        /\ item = <<>> /\ launched = <<>> /\ productsToSync = <<>>
        /\ sink = sink0
        /\ logs = StartLogs \o << Entry("fetched", 0, 0, ""), Entry("empty", 0, 0, "") >>
        /\ \A p \in DOMAIN logs :
              logs[p].kind \notin { "batch", "startShopify", "batchSync", "rule", "complete",
                                    "Total Products", "Created", "Updated", "Published",
                                    "Failed" }

\* A run over an empty source has returned, channels requested and the
\* sink holding products.
C37_Witness ==
    /\ exit = "empty" /\ result.returned /\ source = <<>>
    /\ WantsPublish
    /\ sink # EmptySink

\* -------------------------------------------------------------------- C38

\* C38: for a run that reached its final summary the endpoint answers 500
\* when every record that has a SKU failed, 207 when some but not all of
\* them failed, and 200 when none failed.
C38_StatusByProcessed ==
    (result.returned /\ exit = "normal") =>
        httpStatus = (IF result.summary.failed > 0
                         /\ result.summary.failed = Len(FilterSku(source))
                      THEN 500
                      ELSE IF result.summary.failed > 0 THEN 207
                      ELSE 200)

\* The same for the runs whose source holds no record without a SKU.
C38_StatusWhenAllHaveSku ==
    (result.returned /\ exit = "normal" /\ Len(FilterSku(source)) = Len(source)) =>
        httpStatus = (IF result.summary.failed > 0
                         /\ result.summary.failed = Len(FilterSku(source))
                      THEN 500
                      ELSE IF result.summary.failed > 0 THEN 207
                      ELSE 200)

\* Every record that has a SKU failed, one record has none, and the
\* endpoint answered 207.
C38_Witness ==
    /\ result.returned /\ exit = "normal"
    /\ Len(FilterSku(source)) < Len(source)
    /\ result.summary.failed = Len(FilterSku(source))
    /\ result.summary.failed > 0
    /\ httpStatus = 207

\* -------------------------------------------------------------------- C39

\* C39: the endpoint answers 200 exactly when the run reports success.
C39_OkIffSuccess ==
    httpStatus # 0 => (httpStatus = 200 <=> result.success)

\* A run that reports success is answered 200.
C39_SuccessIsOk ==
    (httpStatus # 0 /\ result.success) => httpStatus = 200

\* A run aborted by the configuration check is answered 200.
C39_Witness ==
    /\ result.returned /\ exit = "config" /\ ~result.success
    /\ httpStatus = 200

\* -------------------------------------------------------------------- C40

\* C40: a dashboard has at most one sync request outstanding, isLoading
\* being true exactly while it has one; a request whose fetch rejects
\* leaves isLoading false and a summary set at once, and a request whose
\* fetch has resolved leads to isLoading false with a summary set.
C40_SingleFlight ==
    /\ [](/\ Cardinality(Outstanding(dash)) <= 1
          /\ dash.isLoading <=> (Outstanding(dash) # {})
          /\ dash.isLoading => ButtonDisabled(dash))
    /\ [][\A r \in REQUESTS :
              (dash.requests[r].pc \in {"fetching", "parsing"}
               /\ dash'.requests[r].pc = "done") =>
                  (~dash'.isLoading /\ dash'.summary # NullSummary)]_vars
    /\ \A r \in REQUESTS :
          (dash.requests[r].pc = "parsing") ~> (~dash.isLoading /\ dash.summary # NullSummary)

\* The last of the requests a dashboard can make is on its way after the
\* ones before it have settled, one with an error and one with a summary.
C40_Witness ==
    /\ dash.requests[MaxClicks].pc = "parsing"
    /\ dash.isLoading
    /\ \E q \in REQUESTS : dash.requests[q].pc = "done" /\ ~dash.requests[q].json
    /\ \E q \in REQUESTS : dash.requests[q].pc = "done" /\ dash.requests[q].json

====
